---------------------------- MODULE Spec2Model ----------------------------
(***************************************************************************)
(* A model of sync/zeroconf_auth.py: the client side of the Spotify        *)
(* Connect Zeroconf addUser handshake.                                      *)
(*                                                                         *)
(* Byte strings are sequences of integers 0..255, text strings are         *)
(* sequences of Unicode code points.  A Python call that may raise is an   *)
(* operator whose value is a record [exc, val]: exc is "none" and val the  *)
(* returned value, or exc names the exception raised.                      *)
(*                                                                         *)
(* Three parts of the program are represented at a reduced scale, each by  *)
(* a definition that says so:                                              *)
(*   - the Diffie-Hellman group (PRIME, KEY_BYTES) is a 16-bit group, so   *)
(*     that every product fits TLC's 32-bit integers;                      *)
(*   - os.urandom draws each byte from RandByte instead of 0..255;         *)
(*   - the primitives of hashlib, hmac and cryptography (SHA1, PBKDF2,     *)
(*     the AES block function) are fixed deterministic stand-ins with the  *)
(*     primitives' input checks and output lengths.                        *)
(***************************************************************************)
EXTENDS Integers, Sequences, FiniteSets, TLC

(***************************************************************************)
(* Python values and exceptions                                            *)
(***************************************************************************)
None == <<-1>>

Ok(v) == [exc |-> "none", val |-> v]

Raise(e) == [exc |-> e, val |-> <<>>]

(***************************************************************************)
(* Integer bit operations (&, |, ^, >>), on non-negative integers          *)
(***************************************************************************)
RECURSIVE BitAnd(_, _)
BitAnd(a, b) ==
    IF a = 0 \/ b = 0 THEN 0
    ELSE (IF a % 2 = 1 /\ b % 2 = 1 THEN 1 ELSE 0) + 2 * BitAnd(a \div 2, b \div 2)

RECURSIVE BitOr(_, _)
BitOr(a, b) ==
    IF a = 0 THEN b
    ELSE IF b = 0 THEN a
    ELSE (IF a % 2 = 1 \/ b % 2 = 1 THEN 1 ELSE 0) + 2 * BitOr(a \div 2, b \div 2)

RECURSIVE BitXor(_, _)
BitXor(a, b) ==
    IF a = 0 THEN b
    ELSE IF b = 0 THEN a
    ELSE ((a + b) % 2) + 2 * BitXor(a \div 2, b \div 2)

RECURSIVE ShiftRight(_, _)
ShiftRight(n, k) == IF k = 0 THEN n ELSE ShiftRight(n \div 2, k - 1)

(***************************************************************************)
(* Sequence helpers.  Recursion is by halves, so that a buffer of tens of  *)
(* thousands of bytes is processed in logarithmic depth.                   *)
(***************************************************************************)
Repeat(b, n) == [i \in 1..n |-> b]

\* The sequences pieces[lo..hi] concatenated, in order.
RECURSIVE Concat(_, _, _)
Concat(pieces, lo, hi) ==
    IF lo > hi THEN <<>>
    ELSE IF lo = hi THEN pieces[lo]
    ELSE LET mid == (lo + hi) \div 2
         IN  Concat(pieces, lo, mid) \o Concat(pieces, mid + 1, hi)

\* bytes(iterable of ints): ValueError unless every element is in range(256).
bytes(ints) ==
    IF \A i \in 1..Len(ints) : ints[i] >= 0 /\ ints[i] <= 255
    THEN Ok(ints)
    ELSE Raise("ValueError")

(***************************************************************************)
(* str.encode(): UTF-8                                                     *)
(***************************************************************************)
utf8_char(cp) ==
    IF cp < 128 THEN <<cp>>
    ELSE IF cp < 2048 THEN <<192 + (cp \div 64), 128 + (cp % 64)>>
    ELSE IF cp < 65536
         THEN <<224 + (cp \div 4096), 128 + ((cp \div 64) % 64), 128 + (cp % 64)>>
    ELSE <<240 + (cp \div 262144), 128 + ((cp \div 4096) % 64),
           128 + ((cp \div 64) % 64), 128 + (cp % 64)>>

encode(str) == Concat([i \in 1..Len(str) |-> utf8_char(str[i])], 1, Len(str))

\* Variant of lines 86-88 that keeps only the low eight bits of n >> 7.
write_int_masked(n) ==
    IF n > 127
    THEN bytes(<<BitOr(BitAnd(n, 127), 128), ShiftRight(n, 7) % 256>>)
    ELSE bytes(<<n>>)

(***************************************************************************)
(* _write_int: the blob format's variable-length integer                   *)
(***************************************************************************)
\* Faulty variants of _write_int: the second byte shifted by 8 instead of 7,
\* and the one-byte range ending at 126.
write_int_shift8(n) ==
    IF n > 127
    THEN bytes(<<BitOr(BitAnd(n, 127), 128), ShiftRight(n, 8)>>)
    ELSE bytes(<<n>>)

write_int_ge127(n) ==
    IF n >= 127
    THEN bytes(<<BitOr(BitAnd(n, 127), 128), ShiftRight(n, 7)>>)
    ELSE bytes(<<n>>)

\* Variant of lines 86-88 whose second byte stops at 255.
write_int_clamped(n) ==
    IF n > 127
    THEN bytes(<<BitOr(BitAnd(n, 127), 128),
                 IF ShiftRight(n, 7) > 255 THEN 255 ELSE ShiftRight(n, 7)>>)
    ELSE bytes(<<n>>)

_write_int(n) ==
    IF n > 127
    THEN bytes(<<BitOr(BitAnd(n, 127), 128), ShiftRight(n, 7)>>)
    ELSE bytes(<<n>>)

\* The decoder the format is written for (librespot's read_int, which the
\* docstring of _write_int names): one byte when the high bit is clear, else
\* (b0 & 0x7f) | (b1 << 7).
read_int(bs) ==
    IF bs[1] < 128 THEN bs[1] ELSE BitOr(BitAnd(bs[1], 127), bs[2] * 128)

(***************************************************************************)
(* Stand-ins for the library primitives.  Mix condenses a byte string into *)
(* one number that depends on its length and on every byte and position;   *)
(* Digest spreads it over n bytes.  tag separates the primitives.          *)
(***************************************************************************)
RECURSIVE WeightedSum(_, _, _)
WeightedSum(s, lo, hi) ==
    IF lo > hi THEN 0
    ELSE IF lo = hi THEN ((s[lo] + 1) * (1 + ((lo * 7) % 257))) % 65521
    ELSE LET mid == (lo + hi) \div 2
         IN  (WeightedSum(s, lo, mid) + WeightedSum(s, mid + 1, hi)) % 65521

Mix(data) == (Len(data) * 131 + WeightedSum(data, 1, Len(data))) % 65521

Digest(tag, data, n) ==
    LET m == Mix(data)
    IN  [i \in 1..n |-> (m * (2 * i + 1) + (m \div 251) + tag * 97 + i * 13) % 256]

\* hashlib.sha1(data).digest(): 20 bytes.
sha1(data) == Digest(1, data, 20)

\* PBKDF2HMAC(SHA1, length, salt, iterations).derive(key_material).
pbkdf2_hmac_sha1(length, salt, iterations, key_material) ==
    Digest(3, <<Len(key_material), iterations % 256, iterations \div 256>>
                  \o key_material \o salt, length)

\* The AES block function: 16 bytes under a key to 16 bytes.
aes_block(key, block) ==
    LET k == Mix(key)
    IN  [i \in 1..16 |->
            (block[i] + key[((i - 1) % Len(key)) + 1] + k * i + (k \div 256)) % 256]

(***************************************************************************)
(* Crypto helpers                                                          *)
(***************************************************************************)
\* hmac.new(key, msg, hashlib.sha1).digest(): H((K ^ opad) || H((K ^ ipad) || msg))
\* with K the key zero-padded to the 64-byte block (hashed first when longer).
_hmac_sha1(key, msg) ==
    LET k0 == IF Len(key) > 64 THEN sha1(key) ELSE key
        kb == k0 \o Repeat(0, 64 - Len(k0))
        ipad == [i \in 1..64 |-> BitXor(kb[i], 54)]
        opad == [i \in 1..64 |-> BitXor(kb[i], 92)]
    IN  sha1(opad \o sha1(ipad \o msg))

\* The 16-byte big-endian counter block iv + k.
RECURSIVE ctr_add(_, _, _)
ctr_add(iv, k, pos) ==
    IF pos = 0 \/ k = 0 THEN iv
    ELSE LET t == iv[pos] + (k % 256)
         IN  ctr_add([iv EXCEPT ![pos] = t % 256], (k \div 256) + (t \div 256), pos - 1)

\* Cipher(AES(key), ...): ValueError unless the key is 128, 192 or 256 bits.
aes_key_ok(key) == Len(key) \in {16, 24, 32}

_aes128_ctr(key, iv, data) ==
    IF ~aes_key_ok(key) \/ Len(iv) # 16 THEN Raise("ValueError")
    ELSE LET nblocks == (Len(data) + 15) \div 16
             stream == [b \in 0..(nblocks - 1) |-> aes_block(key, ctr_add(iv, b, 16))]
         IN  Ok([j \in 1..Len(data) |->
                    BitXor(data[j], stream[(j - 1) \div 16][((j - 1) % 16) + 1])])

\* ECB without padding: finalize() raises ValueError on a partial block.
_aes192_ecb_encrypt(key, data) ==
    IF ~aes_key_ok(key) \/ Len(data) % 16 # 0 THEN Raise("ValueError")
    ELSE LET blocks == [b \in 0..((Len(data) \div 16) - 1) |->
                           aes_block(key, SubSeq(data, 16 * b + 1, 16 * b + 16))]
         IN  Ok([j \in 1..Len(data) |-> blocks[(j - 1) \div 16][((j - 1) % 16) + 1]])

(***************************************************************************)
(* Blob construction                                                       *)
(***************************************************************************)
\* Variant of lines 112-120 that leaves out the separator and the
\* authentication type between the username and the token.
inner_plaintext_noauth(username_b, token_b) ==
    LET ulen == _write_int(Len(username_b))
        tlen == _write_int(Len(token_b))
    IN  IF ulen.exc # "none" THEN ulen
        ELSE IF tlen.exc # "none" THEN tlen
        ELSE Ok(<<0>> \o ulen.val \o username_b \o <<0>> \o tlen.val \o token_b)

\* Lines 112-120: the plaintext the device's decoder reads.
inner_plaintext(username_b, token_b) ==
    LET ulen == _write_int(Len(username_b))
        auth == _write_int(4)
        tlen == _write_int(Len(token_b))
    IN  IF ulen.exc # "none" THEN ulen
        ELSE IF auth.exc # "none" THEN auth
        ELSE IF tlen.exc # "none" THEN tlen
        ELSE Ok(<<0>> \o ulen.val \o username_b \o <<0>> \o auth.val
                    \o <<0>> \o tlen.val \o token_b)

\* Variant of lines 123-124 that appends len(raw) % 16 zero bytes.
zero_pad_short(raw) ==
    LET pad == Len(raw) % 16
    IN  raw \o Repeat(0, pad)

\* Variant of lines 123-124 without the outer "% 16": a whole block of
\* zeros is added to an aligned buffer.
zero_pad_full_block(raw) ==
    LET pad == 16 - (Len(raw) % 16)
    IN  raw \o Repeat(0, pad)

\* Lines 123-124: zero-pad to the AES block boundary.
zero_pad(raw) ==
    LET pad == (16 - (Len(raw) % 16)) % 16
    IN  raw \o Repeat(0, pad)

\* Line 132, for the 0-based index j: raw[j] ^= raw[j - 16].
xor_step(raw, j) == [raw EXCEPT ![j + 1] = BitXor(raw[j + 1], raw[j + 1 - 16])]

\* for j in range(lo, hi), in increasing order: the steps lo..mid-1 are done
\* (first is evaluated, by taking its length) before the steps mid..hi-1 start.
RECURSIVE xor_range(_, _, _)
xor_range(raw, lo, hi) ==
    IF lo >= hi THEN raw
    ELSE IF hi = lo + 1 THEN xor_step(raw, lo)
    ELSE LET mid == (lo + hi) \div 2
             first == xor_range(raw, lo, mid)
         IN  IF Len(first) >= hi THEN xor_range(first, mid, hi) ELSE first

\* Variant of lines 130-132 in which every byte from offset 16 on is XORed
\* with the original byte 16 positions earlier.
xor_obfuscate_flat(raw) ==
    [j \in 1..Len(raw) |-> IF j <= 16 THEN raw[j] ELSE BitXor(raw[j], raw[j - 16])]

\* Variant of lines 130-132 whose loop is range(16, l - 1).
xor_obfuscate_but_last(raw) == xor_range(raw, 16, Len(raw) - 1)

\* Lines 130-132.
xor_obfuscate(raw) == xor_range(raw, 16, Len(raw))

\* The device's pass (line 127): buffer[j] ^= buffer[j - 16] for j from hi-1
\* down to lo, the steps mid..hi-1 done before the steps lo..mid-1 start.
RECURSIVE xor_range_down(_, _, _)
xor_range_down(buffer, lo, hi) ==
    IF lo >= hi THEN buffer
    ELSE IF hi = lo + 1 THEN xor_step(buffer, lo)
    ELSE LET mid == (lo + hi) \div 2
             first == xor_range_down(buffer, mid, hi)
         IN  IF Len(first) >= hi THEN xor_range_down(first, lo, mid) ELSE first

\* for j from l-1 down to 16.
xor_backward(buffer) == xor_range_down(buffer, 16, Len(buffer))

\* struct.pack(">I", n): four bytes, most significant first.
pack_uint32_be(n) ==
    <<(n \div 16777216) % 256, (n \div 65536) % 256, (n \div 256) % 256, n % 256>>

\* Variant of lines 135-139 without the final SHA1 over base_key.
derive_inner_key_unhashed(device_id, username_b) ==
    LET secret == sha1(encode(device_id))
        base_key == pbkdf2_hmac_sha1(20, username_b, 256, secret)
    IN  base_key \o pack_uint32_be(Len(base_key))

\* Lines 135-139: the 24-byte AES-192 key.
derive_inner_key(device_id, username_b) ==
    LET secret == sha1(encode(device_id))
        base_key == pbkdf2_hmac_sha1(20, username_b, 256, secret)
    IN  sha1(base_key) \o pack_uint32_be(Len(base_key))

(***************************************************************************)
(* String literals of the program, as code points                          *)
(***************************************************************************)
\* "checksum"
S_CHECKSUM == <<99, 104, 101, 99, 107, 115, 117, 109>>

\* "encryption"
S_ENCRYPTION == <<101, 110, 99, 114, 121, 112, 116, 105, 111, 110>>

\* "action"
S_ACTION == <<97, 99, 116, 105, 111, 110>>

\* "addUser"
S_ADDUSER == <<97, 100, 100, 85, 115, 101, 114>>

\* "userName"
S_USERNAME == <<117, 115, 101, 114, 78, 97, 109, 101>>

\* "blob"
S_BLOB == <<98, 108, 111, 98>>

\* "clientKey"
S_CLIENTKEY == <<99, 108, 105, 101, 110, 116, 75, 101, 121>>

\* "deviceId"
S_DEVICEID == <<100, 101, 118, 105, 99, 101, 73, 100>>

\* "deviceName"
S_DEVICENAME == <<100, 101, 118, 105, 99, 101, 78, 97, 109, 101>>

\* "tokenType"
S_TOKENTYPE == <<116, 111, 107, 101, 110, 84, 121, 112, 101>>

\* "accesstoken"
S_ACCESSTOKEN == <<97, 99, 99, 101, 115, 115, 116, 111, 107, 101, 110>>

\* "http://"
S_HTTP == <<104, 116, 116, 112, 58, 47, 47>>

\* "application/x-www-form-urlencoded"
S_FORM == <<97, 112, 112, 108, 105, 99, 97, 116, 105, 111, 110, 47, 120, 45, 119, 119, 119, 45, 102, 111, 114, 109, 45, 117, 114, 108, 101, 110, 99, 111, 100, 101, 100>>

\* "jaren-nul-sync"
S_DEFAULT_NAME == <<106, 97, 114, 101, 110, 45, 110, 117, 108, 45, 115, 121, 110, 99>>

(***************************************************************************)
(* Diffie-Hellman.  The program's group is the 768-bit Oakley group 1 with *)
(* 96-byte values; the model's group is PRIME with KEY_BYTES-byte values,  *)
(* PRIME < 256^KEY_BYTES as in the program, and small enough that every    *)
(* product of two residues is below 2^31.                                  *)
(***************************************************************************)
PRIME == 46337

GENERATOR == 2

KEY_BYTES == 2

\* os.urandom(n): a draw of n bytes is one of the streams s, s+37, s+74, ...
\* (mod 256), s one of the seeds of the run (a subset of RandByte).
RandByte == {0, 1, 2, 3, 127, 128, 254, 255}

urandom_from(seeds, n) == {[i \in 1..n |-> (s + 37 * (i - 1)) % 256] : s \in seeds}

\* int.from_bytes(bs, "big")
RECURSIVE from_bytes(_)
from_bytes(bs) ==
    IF Len(bs) = 0 THEN 0
    ELSE 256 * from_bytes(SubSeq(bs, 1, Len(bs) - 1)) + bs[Len(bs)]

RECURSIVE Pow256(_)
Pow256(k) == IF k = 0 THEN 1 ELSE 256 * Pow256(k - 1)

\* n.to_bytes(length, "big"): OverflowError when n needs more than length bytes.
RECURSIVE to_bytes_digits(_, _)
to_bytes_digits(n, length) ==
    IF length = 0 THEN <<>>
    ELSE Append(to_bytes_digits(n \div 256, length - 1), n % 256)

\* (A model integer is below 2^31, so it always fits four bytes or more.)
to_bytes(n, length) ==
    IF length < 4 /\ n >= Pow256(length) THEN Raise("OverflowError")
    ELSE Ok(to_bytes_digits(n, length))

\* pow(base, exp, mod): square and multiply on residues.
RECURSIVE pow(_, _, _)
pow(base, exp, mod) ==
    IF exp = 0 THEN 1 % mod
    ELSE LET half == pow(base, exp \div 2, mod)
             sq == (half * half) % mod
         IN  IF exp % 2 = 1 THEN (sq * (base % mod)) % mod ELSE sq

\* Variant of lines 50-52 whose public value is not padded to KEY_BYTES bytes.
RECURSIVE strip_zeros(_)
strip_zeros(bs) ==
    IF Len(bs) > 1 /\ bs[1] = 0 THEN strip_zeros(Tail(bs)) ELSE bs

dh_generate_unpadded(rand) ==
    LET private == from_bytes(rand)
        public == to_bytes(pow(GENERATOR, private, PRIME), KEY_BYTES)
    IN  IF public.exc # "none" THEN public
        ELSE Ok([private |-> private, public |-> strip_zeros(public.val)])

\* Lines 50-52, given the bytes os.urandom(_KEY_BYTES - 1) delivered.
_dh_generate(rand) ==
    LET private == from_bytes(rand)
        public == to_bytes(pow(GENERATOR, private, PRIME), KEY_BYTES)
    IN  IF public.exc # "none" THEN public
        ELSE Ok([private |-> private, public |-> public.val])

(***************************************************************************)
(* base64: text over A-Z a-z 0-9 + / with = padding                        *)
(***************************************************************************)
b64_char(v) ==
    IF v < 26 THEN 65 + v
    ELSE IF v < 52 THEN 97 + (v - 26)
    ELSE IF v < 62 THEN 48 + (v - 52)
    ELSE IF v = 62 THEN 43 ELSE 47

\* The value of a base64 character, 64 for any other character.
b64_value(c) ==
    IF c >= 65 /\ c <= 90 THEN c - 65
    ELSE IF c >= 97 /\ c <= 122 THEN c - 97 + 26
    ELSE IF c >= 48 /\ c <= 57 THEN c - 48 + 52
    ELSE IF c = 43 THEN 62
    ELSE IF c = 47 THEN 63 ELSE 64

\* base64.b64encode(bs).decode()
b64encode(bs) ==
    LET n == Len(bs)
        at(i) == IF i <= n THEN bs[i] ELSE 0
    IN  [k \in 1..(4 * ((n + 2) \div 3)) |->
            LET g == 3 * ((k - 1) \div 4)
                p == (k - 1) % 4
            IN  IF p = 0 THEN b64_char(at(g + 1) \div 4)
                ELSE IF p = 1
                     THEN b64_char((at(g + 1) % 4) * 16 + (at(g + 2) \div 16))
                ELSE IF p = 2
                     THEN IF g + 2 > n THEN 61
                          ELSE b64_char((at(g + 2) % 16) * 4 + (at(g + 3) \div 64))
                ELSE IF g + 3 > n THEN 61 ELSE b64_char(at(g + 3) % 64)]

\* binascii.a2b_base64 in its default, non-strict mode: characters outside the
\* alphabet are skipped, the scan stops at the first complete padding, and a
\* quad left incomplete at the end is an error (binascii.Error).
RECURSIVE a2b_scan(_, _, _, _, _, _)
a2b_scan(text, i, quad_pos, pads, leftchar, out) ==
    IF i > Len(text)
    THEN IF quad_pos # 0 THEN Raise("binascii.Error") ELSE Ok(out)
    ELSE LET c == text[i]
             v == b64_value(c)
         IN  IF c = 61
             THEN IF quad_pos >= 2 /\ quad_pos + pads + 1 >= 4
                  THEN Ok(out)
                  ELSE a2b_scan(text, i + 1, quad_pos, pads + 1, leftchar, out)
             ELSE IF v = 64
             THEN a2b_scan(text, i + 1, quad_pos, pads, leftchar, out)
             ELSE IF quad_pos = 0
             THEN a2b_scan(text, i + 1, 1, 0, v, out)
             ELSE IF quad_pos = 1
             THEN a2b_scan(text, i + 1, 2, 0, v % 16,
                           Append(out, leftchar * 4 + (v \div 16)))
             ELSE IF quad_pos = 2
             THEN a2b_scan(text, i + 1, 3, 0, v % 4,
                           Append(out, leftchar * 16 + (v \div 4)))
             ELSE a2b_scan(text, i + 1, 0, 0, 0, Append(out, leftchar * 64 + v))

\* Variant of base64.b64decode that completes a short last quad with "=".
b64decode_padded(text) ==
    IF \E i \in 1..Len(text) : text[i] > 127 THEN Raise("ValueError")
    ELSE a2b_scan(text \o Repeat(61, (4 - (Len(text) % 4)) % 4), 1, 0, 0, 0, <<>>)

\* base64.b64decode(text): a str argument must be ASCII (ValueError).
b64decode(text) ==
    IF \E i \in 1..Len(text) : text[i] > 127 THEN Raise("ValueError")
    ELSE a2b_scan(text, 1, 0, 0, 0, <<>>)

\* Variant of lines 57-58 with base and exponent exchanged.
dh_shared_swapped(device_pub_b64, client_private) ==
    LET decoded == b64decode(device_pub_b64)
    IN  IF decoded.exc # "none" THEN decoded
        ELSE to_bytes(pow(client_private, from_bytes(decoded.val), PRIME), KEY_BYTES)

\* Variant of lines 57-58 that accepts a peer value in 2..PRIME-2 only.
dh_shared_validated(device_pub_b64, client_private) ==
    LET decoded == b64decode(device_pub_b64)
        peer == from_bytes(decoded.val)
    IN  IF decoded.exc # "none" THEN decoded
        ELSE IF peer < 2 \/ peer > PRIME - 2 THEN Raise("ValueError")
        ELSE to_bytes(pow(peer, client_private, PRIME), KEY_BYTES)

\* Lines 57-58.
_dh_shared(device_pub_b64, client_private) ==
    LET decoded == b64decode(device_pub_b64)
    IN  IF decoded.exc # "none" THEN decoded
        ELSE to_bytes(pow(from_bytes(decoded.val), client_private, PRIME), KEY_BYTES)

\* Variant of lines 152-161 that returns the ciphertext and the tag without the IV.
build_outer_blob_no_iv(inner, device_pub_b64, client_private, iv) ==
    LET shared == _dh_shared(device_pub_b64, client_private)
    IN  IF shared.exc # "none" THEN shared
        ELSE LET base_key == sha1(shared.val)
                 checksum_key == _hmac_sha1(base_key, S_CHECKSUM)
                 encryption_key == SubSeq(_hmac_sha1(base_key, S_ENCRYPTION), 1, 16)
                 encrypted == _aes128_ctr(encryption_key, iv, inner)
                 mac == _hmac_sha1(checksum_key, encrypted.val)
             IN  IF encrypted.exc # "none" THEN encrypted
                 ELSE [exc |-> "none",
                       val |-> encrypted.val \o mac,
                       frame |-> [shared |-> shared.val, base_key |-> base_key,
                                  checksum_key |-> checksum_key,
                                  encryption_key |-> encryption_key,
                                  encrypted |-> encrypted.val, mac |-> mac]]

\* Variant of lines 152-161 whose tag covers the IV as well as the ciphertext.
build_outer_blob_mac_iv(inner, device_pub_b64, client_private, iv) ==
    LET shared == _dh_shared(device_pub_b64, client_private)
    IN  IF shared.exc # "none" THEN shared
        ELSE LET base_key == sha1(shared.val)
                 checksum_key == _hmac_sha1(base_key, S_CHECKSUM)
                 encryption_key == SubSeq(_hmac_sha1(base_key, S_ENCRYPTION), 1, 16)
                 encrypted == _aes128_ctr(encryption_key, iv, inner)
                 mac == _hmac_sha1(checksum_key, iv \o encrypted.val)
             IN  IF encrypted.exc # "none" THEN encrypted
                 ELSE [exc |-> "none",
                       val |-> iv \o encrypted.val \o mac,
                       frame |-> [shared |-> shared.val, base_key |-> base_key,
                                  checksum_key |-> checksum_key,
                                  encryption_key |-> encryption_key,
                                  encrypted |-> encrypted.val, mac |-> mac]]

\* Variant of lines 152-161 with the two key labels exchanged.
build_outer_blob_labels_swapped(inner, device_pub_b64, client_private, iv) ==
    LET shared == _dh_shared(device_pub_b64, client_private)
    IN  IF shared.exc # "none" THEN shared
        ELSE LET base_key == sha1(shared.val)
                 checksum_key == _hmac_sha1(base_key, S_ENCRYPTION)
                 encryption_key == SubSeq(_hmac_sha1(base_key, S_CHECKSUM), 1, 16)
                 encrypted == _aes128_ctr(encryption_key, iv, inner)
                 mac == _hmac_sha1(checksum_key, encrypted.val)
             IN  IF encrypted.exc # "none" THEN encrypted
                 ELSE [exc |-> "none",
                       val |-> iv \o encrypted.val \o mac,
                       frame |-> [shared |-> shared.val, base_key |-> base_key,
                                  checksum_key |-> checksum_key,
                                  encryption_key |-> encryption_key,
                                  encrypted |-> encrypted.val, mac |-> mac]]

\* Lines 152-161, given the bytes os.urandom(16) delivered: the value returned
\* (val) and the function's local variables at the return (frame).
_build_outer_blob(inner, device_pub_b64, client_private, iv) ==
    LET shared == _dh_shared(device_pub_b64, client_private)
    IN  IF shared.exc # "none" THEN shared
        ELSE LET base_key == sha1(shared.val)
                 checksum_key == _hmac_sha1(base_key, S_CHECKSUM)
                 encryption_key == SubSeq(_hmac_sha1(base_key, S_ENCRYPTION), 1, 16)
                 encrypted == _aes128_ctr(encryption_key, iv, inner)
                 mac == _hmac_sha1(checksum_key, encrypted.val)
             IN  IF encrypted.exc # "none" THEN encrypted
                 ELSE [exc |-> "none",
                       val |-> iv \o encrypted.val \o mac,
                       frame |-> [shared |-> shared.val, base_key |-> base_key,
                                  checksum_key |-> checksum_key,
                                  encryption_key |-> encryption_key,
                                  encrypted |-> encrypted.val, mac |-> mac]]

(***************************************************************************)
(* urllib.parse.urlencode: quote_plus of every key and value               *)
(***************************************************************************)
hex_digit(d) == IF d < 10 THEN 48 + d ELSE 55 + d

\* A-Z a-z 0-9 _ . - ~ are never quoted.
always_safe(b) ==
    \/ b >= 65 /\ b <= 90
    \/ b >= 97 /\ b <= 122
    \/ b >= 48 /\ b <= 57
    \/ b \in {95, 46, 45, 126}

quote_plus_byte(b) ==
    IF always_safe(b) THEN <<b>>
    ELSE IF b = 32 THEN <<43>>
    ELSE <<37, hex_digit(b \div 16), hex_digit(b % 16)>>

quote_plus(str) ==
    LET bs == encode(str)
    IN  Concat([i \in 1..Len(bs) |-> quote_plus_byte(bs[i])], 1, Len(bs))

url_pair(kv) == quote_plus(kv[1]) \o <<61>> \o quote_plus(kv[2])

\* "&".join(...) over the query's pairs, in the order of the dict.
RECURSIVE url_join(_, _)
url_join(query, i) ==
    IF i > Len(query) THEN <<>>
    ELSE IF i = Len(query) THEN url_pair(query[i])
    ELSE url_pair(query[i]) \o <<38>> \o url_join(query, i + 1)

urlencode(query) == url_join(query, 1)

\* str(n) for a non-negative integer.
RECURSIVE decimal(_)
decimal(n) == IF n < 10 THEN <<48 + n>> ELSE Append(decimal(n \div 10), 48 + (n % 10))

(***************************************************************************)
(* json.loads, for JSON texts of objects, arrays, strings without escapes, *)
(* non-negative integers, true, false and null.  A parsed value is a       *)
(* record [t, v]: t the Python type, v the value (a dict is the sequence   *)
(* of its <<key, value>> items).  Anything else is a JSONDecodeError.      *)
(***************************************************************************)
JFail == [ok |-> FALSE, val |-> <<>>, next |-> 0]

JDone(t, v, next) == [ok |-> TRUE, val |-> [t |-> t, v |-> v], next |-> next]

is_ws(c) == c \in {32, 9, 10, 13}

is_digit(c) == c >= 48 /\ c <= 57

RECURSIVE skip_ws(_, _)
skip_ws(s, i) == IF i <= Len(s) /\ is_ws(s[i]) THEN skip_ws(s, i + 1) ELSE i

starts_with(s, i, word) ==
    /\ i + Len(word) - 1 <= Len(s)
    /\ \A k \in 1..Len(word) : s[i + k - 1] = word[k]

\* The index of the quote closing the string whose text starts at i; 0 if none.
RECURSIVE string_end(_, _)
string_end(s, i) ==
    IF i > Len(s) \/ s[i] = 92 \/ s[i] < 32 THEN 0
    ELSE IF s[i] = 34 THEN i
    ELSE string_end(s, i + 1)

RECURSIVE digits_end(_, _)
digits_end(s, i) == IF i <= Len(s) /\ is_digit(s[i]) THEN digits_end(s, i + 1) ELSE i

RECURSIVE digits_value(_, _, _)
digits_value(s, i, j) ==
    IF j < i THEN 0 ELSE 10 * digits_value(s, i, j - 1) + (s[j] - 48)

json_string(s, i) ==
    LET e == string_end(s, i + 1)
    IN  IF e = 0 THEN JFail ELSE JDone("str", SubSeq(s, i + 1, e - 1), e + 1)

json_number(s, i) ==
    LET e == digits_end(s, i)
    IN  IF s[i] = 48 /\ e > i + 1 THEN JDone("int", 0, i + 1)
        ELSE JDone("int", digits_value(s, i, e - 1), e)

RECURSIVE json_value(_, _)
RECURSIVE json_elements(_, _, _)
RECURSIVE json_members(_, _, _)
\* The value starting at s[i].
json_value(s, i) ==
    IF i > Len(s) THEN JFail
    ELSE IF s[i] = 123
         THEN LET j == skip_ws(s, i + 1)
              IN  IF j <= Len(s) /\ s[j] = 125 THEN JDone("dict", <<>>, j + 1)
                  ELSE json_members(s, j, <<>>)
    ELSE IF s[i] = 91
         THEN LET j == skip_ws(s, i + 1)
              IN  IF j <= Len(s) /\ s[j] = 93 THEN JDone("list", <<>>, j + 1)
                  ELSE json_elements(s, j, <<>>)
    ELSE IF s[i] = 34 THEN json_string(s, i)
    ELSE IF is_digit(s[i]) THEN json_number(s, i)
    ELSE IF starts_with(s, i, <<116, 114, 117, 101>>) THEN JDone("bool", TRUE, i + 4)
    ELSE IF starts_with(s, i, <<102, 97, 108, 115, 101>>) THEN JDone("bool", FALSE, i + 5)
    ELSE IF starts_with(s, i, <<110, 117, 108, 108>>) THEN JDone("NoneType", None, i + 4)
    ELSE JFail

\* value (, value)* ] from s[i], after the items in acc.
json_elements(s, i, acc) ==
    LET item == json_value(s, i)
        j == skip_ws(s, item.next)
    IN  IF ~item.ok \/ j > Len(s) THEN JFail
        ELSE IF s[j] = 93 THEN JDone("list", Append(acc, item.val), j + 1)
        ELSE IF s[j] = 44
             THEN json_elements(s, skip_ws(s, j + 1), Append(acc, item.val))
        ELSE JFail

\* "key" : value (, "key" : value)* } from s[i], after the items in acc.
json_members(s, i, acc) ==
    IF i > Len(s) \/ s[i] # 34 THEN JFail
    ELSE LET key == json_string(s, i)
             c == skip_ws(s, key.next)
         IN  IF ~key.ok \/ c > Len(s) \/ s[c] # 58 THEN JFail
             ELSE LET item == json_value(s, skip_ws(s, c + 1))
                      j == skip_ws(s, item.next)
                      items == Append(acc, <<key.val.v, item.val>>)
                  IN  IF ~item.ok \/ j > Len(s) THEN JFail
                      ELSE IF s[j] = 125 THEN JDone("dict", items, j + 1)
                      ELSE IF s[j] = 44 THEN json_members(s, skip_ws(s, j + 1), items)
                      ELSE JFail

\* Variant of line 204 that returns the response text without parsing it.
json_loads_text(body) ==
    IF Len(body) = 0 THEN Raise("JSONDecodeError") ELSE Ok([t |-> "str", v |-> body])

json_loads(body) ==
    LET r == json_value(body, skip_ws(body, 1))
    IN  IF r.ok /\ skip_ws(body, r.next) > Len(body) THEN Ok(r.val)
        ELSE Raise("JSONDecodeError")

(***************************************************************************)
(* The state: the add_user calls in progress, the endpoint and the wire    *)
(***************************************************************************)
VARIABLES
    pc,       \* call -> the statement of add_user the call is at
    arg,      \* call -> the arguments of the call
    loc,      \* call -> the local variables of add_user and _build_inner_blob
    hist,     \* call -> raw as it was after lines 120 and 124, and the byte
              \* strings os.urandom delivered to the call, in order (history)
    outcome,  \* call -> [exc, val]: the exception raised or the value returned
    opened,   \* call -> the number of urlopen invocations
    wire,     \* the requests the endpoint received, in order: [call, req]
    reply,    \* call -> what came back from the endpoint
    entropy,  \* the seeds os.urandom draws from in this run
    endpoint, \* the answers the endpoint may give in this run
    dh,       \* party -> a keypair and shared secret (key-exchange runs)
    vi,       \* one _write_int evaluation and its decoding (codec runs)
    rq,       \* one top-level SpotifyClient._request call
    fd,       \* one find_device call
    sy,       \* a run of sync_new_songs calls over the same two sets
    pl,       \* the control server's state and its /play requests
    tl        \* a Mopidy tracklist and the prune_old_tracks calls on it

vars ==
    <<pc, arg, loc, hist, outcome, opened, wire, reply, entropy, endpoint, dh, vi,
      rq, fd, sy, pl, tl>>

\* The state of the sync scripts (sync_vrt_to_spotify.py, sync_vrt_to_mopidy.py).
sync_vars == <<rq, fd, sy, pl, tl>>

\* The value of a variable whose component does not run.
Off == [at |-> "off"]

SyncOff ==
    /\ rq = Off
    /\ fd = Off
    /\ sy = Off
    /\ pl = Off
    /\ tl = Off

call_vars == <<pc, arg, loc, hist, outcome, opened, wire, reply, entropy, endpoint>>

Calls == DOMAIN pc

NoLocals ==
    [client_device_id |-> <<>>, client_private |-> 0, client_public |-> <<>>,
     raw |-> <<>>, key |-> <<>>, inner |-> <<>>, iv |-> <<>>, blob |-> <<>>,
     outer |-> [shared |-> <<>>, base_key |-> <<>>, checksum_key |-> <<>>,
                encryption_key |-> <<>>, encrypted |-> <<>>, mac |-> <<>>],
     req |-> [url |-> <<>>, data |-> <<>>, content_type |-> <<>>, method |-> ""]]

NoHistory == [plain |-> <<>>, padded |-> <<>>, drawn |-> <<>>]

NoOutcome == [exc |-> "pending", val |-> <<>>]

NoReply == [kind |-> "none", status |-> 0, body |-> <<>>]

\* hashlib's hexdigest(): two lowercase hex digits per byte.
hex_low(d) == IF d < 10 THEN 48 + d ELSE 87 + d

hex_byte(b) == <<hex_low(b \div 16), hex_low(b % 16)>>

hexdigest(bs) == Concat([i \in 1..Len(bs) |-> hex_byte(bs[i])], 1, Len(bs))

\* The call ends raising e.
Fail(c, e) ==
    /\ pc' = [pc EXCEPT ![c] = "raised"]
    /\ outcome' = [outcome EXCEPT ![c] = Raise(e)]

(***************************************************************************)
(* add_user, statement by statement                                        *)
(***************************************************************************)
\* Variant of lines 178-179 that tests "not client_device_id": an empty
\* identifier is replaced by a generated one.
ChooseDeviceIdIfEmpty(c) ==
    /\ pc[c] = "start"
    /\ IF arg[c].client_device_id = None \/ arg[c].client_device_id = <<>>
       THEN \E r \in urandom_from(entropy, 20) :
                /\ loc' = [loc EXCEPT ![c].client_device_id = hexdigest(sha1(r))]
                /\ hist' = [hist EXCEPT ![c].drawn = Append(@, r)]
       ELSE /\ loc' = [loc EXCEPT ![c].client_device_id = arg[c].client_device_id]
            /\ UNCHANGED hist
    /\ pc' = [pc EXCEPT ![c] = "generate"]
    /\ UNCHANGED <<arg, outcome, opened, wire, reply, entropy, endpoint, dh, vi, sync_vars>>

\* Lines 178-179.
ChooseDeviceId(c) ==
    /\ pc[c] = "start"
    /\ IF arg[c].client_device_id = None
       THEN \E r \in urandom_from(entropy, 20) :
                /\ loc' = [loc EXCEPT ![c].client_device_id = hexdigest(sha1(r))]
                /\ hist' = [hist EXCEPT ![c].drawn = Append(@, r)]
       ELSE /\ loc' = [loc EXCEPT ![c].client_device_id = arg[c].client_device_id]
            /\ UNCHANGED hist
    /\ pc' = [pc EXCEPT ![c] = "generate"]
    /\ UNCHANGED <<arg, outcome, opened, wire, reply, entropy, endpoint, dh, vi, sync_vars>>

\* Variant of line 181 that keeps the first keypair generated and hands it
\* to every later call.
GenerateKeypairCached(c) ==
    /\ pc[c] = "generate"
    /\ \E r \in urandom_from(entropy, KEY_BYTES - 1) :
          LET pair == _dh_generate(r)
              holders == {d \in Calls \ {c} : loc[d].client_public # <<>>}
              cached == CHOOSE d \in holders : TRUE
          IN  /\ hist' = [hist EXCEPT ![c].drawn = Append(@, r)]
              /\ IF pair.exc # "none"
                 THEN Fail(c, pair.exc) /\ UNCHANGED loc
                 ELSE /\ loc' = [loc EXCEPT
                             ![c].client_private = IF holders = {} THEN pair.val.private
                                                   ELSE loc[cached].client_private,
                             ![c].client_public = IF holders = {} THEN pair.val.public
                                                  ELSE loc[cached].client_public]
                      /\ pc' = [pc EXCEPT ![c] = "serialize"]
                      /\ UNCHANGED outcome
    /\ UNCHANGED <<arg, opened, wire, reply, entropy, endpoint, dh, vi, sync_vars>>

\* Line 181.
GenerateKeypair(c) ==
    /\ pc[c] = "generate"
    /\ \E r \in urandom_from(entropy, KEY_BYTES - 1) :
          LET pair == _dh_generate(r)
          IN  /\ hist' = [hist EXCEPT ![c].drawn = Append(@, r)]
              /\ IF pair.exc # "none"
                 THEN Fail(c, pair.exc) /\ UNCHANGED loc
                 ELSE /\ loc' = [loc EXCEPT ![c].client_private = pair.val.private,
                                            ![c].client_public = pair.val.public]
                      /\ pc' = [pc EXCEPT ![c] = "serialize"]
                      /\ UNCHANGED outcome
    /\ UNCHANGED <<arg, opened, wire, reply, entropy, endpoint, dh, vi, sync_vars>>

\* Line 183, _build_inner_blob lines 108-120.
SerializeCredentials(c) ==
    /\ pc[c] = "serialize"
    /\ LET raw == inner_plaintext(encode(arg[c].username), encode(arg[c].access_token))
       IN  IF raw.exc # "none"
           THEN Fail(c, raw.exc) /\ UNCHANGED <<loc, hist>>
           ELSE /\ loc' = [loc EXCEPT ![c].raw = raw.val]
                /\ hist' = [hist EXCEPT ![c].plain = raw.val]
                /\ pc' = [pc EXCEPT ![c] = "pad"]
                /\ UNCHANGED outcome
    /\ UNCHANGED <<arg, opened, wire, reply, entropy, endpoint, dh, vi, sync_vars>>

\* _build_inner_blob lines 123-124.
PadBlob(c) ==
    /\ pc[c] = "pad"
    /\ loc' = [loc EXCEPT ![c].raw = zero_pad(loc[c].raw)]
    /\ hist' = [hist EXCEPT ![c].padded = zero_pad(loc[c].raw)]
    /\ pc' = [pc EXCEPT ![c] = "xor"]
    /\ UNCHANGED <<arg, outcome, opened, wire, reply, entropy, endpoint, dh, vi, sync_vars>>

\* _build_inner_blob lines 130-132.
XorBlob(c) ==
    /\ pc[c] = "xor"
    /\ loc' = [loc EXCEPT ![c].raw = xor_obfuscate(loc[c].raw)]
    /\ pc' = [pc EXCEPT ![c] = "encrypt"]
    /\ UNCHANGED <<arg, hist, outcome, opened, wire, reply, entropy, endpoint, dh, vi, sync_vars>>

\* _build_inner_blob lines 135-141.
EncryptInner(c) ==
    /\ pc[c] = "encrypt"
    /\ LET key == derive_inner_key(arg[c].device_id, encode(arg[c].username))
           inner == _aes192_ecb_encrypt(key, loc[c].raw)
       IN  IF inner.exc # "none"
           THEN Fail(c, inner.exc) /\ UNCHANGED loc
           ELSE /\ loc' = [loc EXCEPT ![c].key = key, ![c].inner = inner.val]
                /\ pc' = [pc EXCEPT ![c] = "outer"]
                /\ UNCHANGED outcome
    /\ UNCHANGED <<arg, hist, opened, wire, reply, entropy, endpoint, dh, vi, sync_vars>>

\* Line 184.  _dh_shared (line 152) fails before os.urandom (line 157) is called.
WrapOuter(c) ==
    /\ pc[c] = "outer"
    /\ \E iv \in urandom_from(entropy, 16) :
          LET blob == _build_outer_blob(loc[c].inner, arg[c].device_pub_b64,
                                        loc[c].client_private, iv)
          IN  IF blob.exc # "none"
              THEN Fail(c, blob.exc) /\ UNCHANGED <<loc, hist>>
              ELSE /\ loc' = [loc EXCEPT ![c].iv = iv, ![c].blob = blob.val,
                                         ![c].outer = blob.frame]
                   /\ hist' = [hist EXCEPT ![c].drawn = Append(@, iv)]
                   /\ pc' = [pc EXCEPT ![c] = "compose"]
                   /\ UNCHANGED outcome
    /\ UNCHANGED <<arg, opened, wire, reply, entropy, endpoint, dh, vi, sync_vars>>

\* Variant of lines 186-202 whose body has no deviceName field.
request_of_no_name(address, port, path, username, blob, client_public, client_device_id, client_device_name) ==
    [url |-> S_HTTP \o address \o <<58>> \o decimal(port) \o path,
     data |-> encode(urlencode(<<
                  <<S_ACTION, S_ADDUSER>>,
                  <<S_USERNAME, username>>,
                  <<S_BLOB, b64encode(blob)>>,
                  <<S_CLIENTKEY, b64encode(client_public)>>,
                  <<S_DEVICEID, client_device_id>>,
                  <<S_TOKENTYPE, S_ACCESSTOKEN>> >>)),
     content_type |-> S_FORM,
     method |-> "POST"]

\* Lines 186-202.
request_of(address, port, path, username, blob, client_public, client_device_id, client_device_name) ==
    [url |-> S_HTTP \o address \o <<58>> \o decimal(port) \o path,
     data |-> encode(urlencode(<<
                  <<S_ACTION, S_ADDUSER>>,
                  <<S_USERNAME, username>>,
                  <<S_BLOB, b64encode(blob)>>,
                  <<S_CLIENTKEY, b64encode(client_public)>>,
                  <<S_DEVICEID, client_device_id>>,
                  <<S_DEVICENAME, client_device_name>>,
                  <<S_TOKENTYPE, S_ACCESSTOKEN>> >>)),
     content_type |-> S_FORM,
     method |-> "POST"]

\* Variant of lines 186-202 that sends the public value of a keypair
\* generated anew instead of client_public.
ComposeRequestOtherKey(c) ==
    /\ pc[c] = "compose"
    /\ \E r \in urandom_from(entropy, KEY_BYTES - 1) :
          loc' = [loc EXCEPT ![c].req =
                     request_of(arg[c].address, arg[c].port, arg[c].path,
                                arg[c].username, loc[c].blob, _dh_generate(r).val.public,
                                loc[c].client_device_id, arg[c].client_device_name)]
    /\ pc' = [pc EXCEPT ![c] = "urlopen"]
    /\ UNCHANGED <<arg, hist, outcome, opened, wire, reply, entropy, endpoint, dh, vi, sync_vars>>

\* Variant of lines 186-202 that sends the target device's id in the
\* deviceId field.
ComposeRequestTargetId(c) ==
    /\ pc[c] = "compose"
    /\ loc' = [loc EXCEPT ![c].req =
                  request_of(arg[c].address, arg[c].port, arg[c].path,
                             arg[c].username, loc[c].blob, loc[c].client_public,
                             arg[c].device_id, arg[c].client_device_name)]
    /\ pc' = [pc EXCEPT ![c] = "urlopen"]
    /\ UNCHANGED <<arg, hist, outcome, opened, wire, reply, entropy, endpoint, dh, vi, sync_vars>>

\* Lines 186-202.
ComposeRequest(c) ==
    /\ pc[c] = "compose"
    /\ loc' = [loc EXCEPT ![c].req =
                  request_of(arg[c].address, arg[c].port, arg[c].path,
                             arg[c].username, loc[c].blob, loc[c].client_public,
                             loc[c].client_device_id, arg[c].client_device_name)]
    /\ pc' = [pc EXCEPT ![c] = "urlopen"]
    /\ UNCHANGED <<arg, hist, outcome, opened, wire, reply, entropy, endpoint, dh, vi, sync_vars>>

(***************************************************************************)
(* Lines 203-204: urlopen(req, timeout=10) and json.loads(resp.read()).    *)
(* The connection fails (URLError), or the endpoint receives the request   *)
(* and then answers with a status and a body, or stays silent until the    *)
(* timeout (TimeoutError).  urlopen raises HTTPError for a status outside  *)
(* 200..299.                                                               *)
(***************************************************************************)
Bodies ==
    { <<123, 34, 115, 116, 97, 116, 117, 115, 34, 58, 49, 48, 49, 44, 34, 115, 116, 97, 116, 117, 115, 83, 116, 114, 105, 110, 103, 34, 58, 34, 79, 75, 34, 125>>,  \* {"status":101,"statusString":"OK"}
      <<123, 125>>,  \* {}
      <<91, 49, 44, 32, 50, 93>>,  \* [1, 2]
      <<>>,  \* empty
      <<60, 104, 116, 109, 108, 62>>,  \* <html>
      <<123, 34, 115, 116, 97, 116, 117, 115, 34, 58, 49, 48, 49>> }  \* {"status":101

Replies ==
    [kind : {"response"}, status : {200, 404}, body : Bodies]
        \cup {[kind |-> "timeout", status |-> 0, body |-> <<>>]}

UrlopenSend(c) ==
    /\ pc[c] = "urlopen"
    /\ opened' = [opened EXCEPT ![c] = @ + 1]
    /\ \/ /\ Fail(c, "URLError")
          /\ UNCHANGED wire
       \/ /\ wire' = Append(wire, [call |-> c, req |-> loc[c].req])
          /\ pc' = [pc EXCEPT ![c] = "await"]
          /\ UNCHANGED outcome
    /\ UNCHANGED <<arg, loc, hist, reply, entropy, endpoint, dh, vi, sync_vars>>

\* Variant of lines 203-204 that returns an empty dict for a body that does
\* not parse.
UrlopenReplyDefault(c) ==
    /\ pc[c] = "await"
    /\ \E r \in endpoint :
          /\ reply' = [reply EXCEPT ![c] = r]
          /\ IF r.kind = "timeout" THEN Fail(c, "TimeoutError")
             ELSE IF r.status < 200 \/ r.status > 299 THEN Fail(c, "HTTPError")
             ELSE LET parsed == json_loads(r.body)
                  IN  /\ pc' = [pc EXCEPT ![c] = "returned"]
                      /\ outcome' = [outcome EXCEPT ![c] =
                             IF parsed.exc # "none" THEN Ok([t |-> "dict", v |-> <<>>])
                             ELSE parsed]
    /\ UNCHANGED <<arg, loc, hist, opened, wire, entropy, endpoint, dh, vi, sync_vars>>

\* Variant of lines 203-204 that goes back to urlopen after a timeout.
UrlopenReplyRetry(c) ==
    /\ pc[c] = "await"
    /\ \E r \in endpoint :
          /\ reply' = [reply EXCEPT ![c] = r]
          /\ IF r.kind = "timeout"
             THEN pc' = [pc EXCEPT ![c] = "urlopen"] /\ UNCHANGED outcome
             ELSE IF r.status < 200 \/ r.status > 299 THEN Fail(c, "HTTPError")
             ELSE LET parsed == json_loads(r.body)
                  IN  IF parsed.exc # "none" THEN Fail(c, parsed.exc)
                      ELSE /\ pc' = [pc EXCEPT ![c] = "returned"]
                           /\ outcome' = [outcome EXCEPT ![c] = parsed]
    /\ UNCHANGED <<arg, loc, hist, opened, wire, entropy, endpoint, dh, vi, sync_vars>>

UrlopenReply(c) ==
    /\ pc[c] = "await"
    /\ \E r \in endpoint :
          /\ reply' = [reply EXCEPT ![c] = r]
          /\ IF r.kind = "timeout" THEN Fail(c, "TimeoutError")
             ELSE IF r.status < 200 \/ r.status > 299 THEN Fail(c, "HTTPError")
             ELSE LET parsed == json_loads(r.body)
                  IN  IF parsed.exc # "none" THEN Fail(c, parsed.exc)
                      ELSE /\ pc' = [pc EXCEPT ![c] = "returned"]
                           /\ outcome' = [outcome EXCEPT ![c] = parsed]
    /\ UNCHANGED <<arg, loc, hist, opened, wire, entropy, endpoint, dh, vi, sync_vars>>

(***************************************************************************)
(* Key-exchange runs: two parties each generate a keypair and compute the  *)
(* shared secret from the other's base64 public value.                     *)
(***************************************************************************)
Parties == {"A", "B"}

NoKeys == [stage |-> "none", private |-> 0, public |-> <<>>, shared |-> <<>>, peer |-> None]

\* The integers a peer may send as its public value: in the group, at its
\* edges and beyond the prime.
PeerValues == {0, 1, 2, 255, 256, PRIME - 1, PRIME, PRIME + 1, 65535}

\* Their base64 texts: KEY_BYTES bytes each, and the empty text, three bytes
\* of 255 and a leading zero byte besides.
PeerKeys ==
    {b64encode(to_bytes(n, KEY_BYTES).val) : n \in PeerValues}
        \cup {<<>>, b64encode(<<255, 255, 255>>), b64encode(<<0, 0, 7>>)}

DhGenerate(p) ==
    /\ dh[p].stage = "none"
    /\ \E r \in urandom_from(entropy, KEY_BYTES - 1) :
          LET pair == _dh_generate(r)
          IN  dh' = [dh EXCEPT ![p] =
                        IF pair.exc # "none" THEN [@ EXCEPT !.stage = pair.exc]
                        ELSE [@ EXCEPT !.stage = "keyed",
                                       !.private = pair.val.private,
                                       !.public = pair.val.public]]
    /\ UNCHANGED <<call_vars, vi, sync_vars>>

DhAgree(p, q) ==
    /\ p # q
    /\ dh[p].stage = "keyed"
    /\ dh[q].stage \in {"keyed", "agreed"}
    /\ LET shared == _dh_shared(b64encode(dh[q].public), dh[p].private)
       IN  dh' = [dh EXCEPT ![p] =
                     IF shared.exc # "none" THEN [@ EXCEPT !.stage = shared.exc]
                     ELSE [@ EXCEPT !.stage = "agreed", !.shared = shared.val]]
    /\ UNCHANGED <<call_vars, vi, sync_vars>>

\* Party p computes the secret from a public value that some peer sent.
DhReceive(p) ==
    /\ dh[p].stage = "keyed"
    /\ \E peer \in PeerKeys :
          LET shared == _dh_shared(peer, dh[p].private)
          IN  dh' = [dh EXCEPT ![p] =
                        IF shared.exc # "none" THEN [@ EXCEPT !.stage = shared.exc, !.peer = peer]
                        ELSE [@ EXCEPT !.stage = "answered", !.shared = shared.val,
                                       !.peer = peer]]
    /\ UNCHANGED <<call_vars, vi, sync_vars>>

(***************************************************************************)
(* Codec runs: _write_int of one integer, then the decoder on its output   *)
(***************************************************************************)
NoCodec == [stage |-> "idle", n |-> 0, out |-> Raise("pending"), decoded |-> 0]

WriteInt ==
    /\ vi.stage = "in"
    /\ vi' = [vi EXCEPT !.stage = "written", !.out = _write_int(vi.n)]
    /\ UNCHANGED <<call_vars, dh, sync_vars>>

ReadInt ==
    /\ vi.stage = "written"
    /\ vi.out.exc = "none"
    /\ vi' = [vi EXCEPT !.stage = "read", !.decoded = read_int(vi.out.val)]
    /\ UNCHANGED <<call_vars, dh, sync_vars>>

(***************************************************************************)
(* Inputs                                                                  *)
(***************************************************************************)
\* n lowercase letters that vary along the text.
sample(n, k) == [i \in 1..n |-> 97 + ((k + 3 * i + (i \div 5)) % 26)]

Usernames ==
    { <<97, 108, 105, 99, 101>>,  \* "alice"
      <<>>,
      <<233, 8364>>,  \* two characters (e acute, euro sign), five bytes
      <<97, 32, 98, 38, 99, 61, 100>>,  \* "a b&c=d"
      sample(128, 1) }

Tokens ==
    { <<116, 111, 107, 49, 50, 51>>,  \* "tok123"
      <<>>,
      <<116, 246, 107>>,  \* three characters (o umlaut), four bytes
      sample(5, 2),
      sample(21, 3),
      sample(130, 4) }

DeviceIds ==
    { <<100, 101, 118, 45, 52, 50>>,  \* "dev-42"
      <<100, 101, 118, 45, 52, 51>> }  \* "dev-43"

\* The secret scalar of the device whose key is DeviceKey.
DevicePrivate == 255

\* That device's publicKey: base64 of GENERATOR^DevicePrivate mod PRIME.
DeviceKey == b64encode(to_bytes(pow(GENERATOR, DevicePrivate, PRIME), KEY_BYTES).val)

\* The device's publicKey: base64 of a big-endian integer, or malformed.
DevicePubKeys ==
    { DeviceKey,
      b64encode(<<255, 255, 254>>),
      <<65, 65, 69>>,  \* "AAE": an incomplete quad
      <<66, 119, 61, 61>>,  \* "Bw==": the single byte 07
      <<33, 33, 33, 33>>,  \* "!!!!": no base64 character
      <<233>> }  \* e acute: not ASCII

ClientDeviceIds ==
    { None,
      <<>>,
      <<99, 105, 100, 45, 49>> }  \* "cid-1"

ArgumentsOf(usernames, tokens, device_ids, pubkeys, client_ids) ==
    [address : {<<49, 48, 46, 48, 46, 48, 46, 55>>}, port : {8080}, path : {<<47, 122, 99>>},
     device_id : device_ids, device_pub_b64 : pubkeys,
     username : usernames, access_token : tokens,
     client_device_id : client_ids, client_device_name : {S_DEFAULT_NAME}]

\* Every username with every token for one device, and one account with
\* every device, device key and client device id.
Arguments ==
    ArgumentsOf(Usernames, Tokens, {<<100, 101, 118, 45, 52, 50>>}, {DeviceKey}, {<<99, 105, 100, 45, 49>>})
        \cup ArgumentsOf({<<97, 108, 105, 99, 101>>}, {<<116, 111, 107, 49, 50, 51>>},
                         DeviceIds, DevicePubKeys, ClientDeviceIds)

\* Usernames and tokens below, in and beyond the two-byte range of the varint.
LongArguments ==
    ArgumentsOf({<<97, 108, 105, 99, 101>>, Repeat(117, 32768)},
                {<<116, 111, 107, 49, 50, 51>>, sample(5, 2), Repeat(116, 16384),
                 Repeat(116, 20000), Repeat(116, 32768)},
                {<<100, 101, 118, 45, 52, 50>>}, {DeviceKey}, {<<99, 105, 100, 45, 49>>})

\* The seeds of a run of calls, and of a run with long arguments.
CallSeeds == {1, 254}

LongSeeds == {3}

\* The largest integer a codec run encodes.
MaxEncoded == 33000

(***************************************************************************)
(* Specifications                                                          *)
(***************************************************************************)
NoCalls ==
    /\ pc = <<>>
    /\ arg = <<>>
    /\ loc = <<>>
    /\ hist = <<>>
    /\ outcome = <<>>
    /\ opened = <<>>
    /\ reply = <<>>
    /\ wire = <<>>

OneCall(arguments) ==
    /\ pc = <<"start">>
    /\ arg \in {<<a>> : a \in arguments}
    /\ loc = <<NoLocals>>
    /\ hist = <<NoHistory>>
    /\ outcome = <<NoOutcome>>
    /\ opened = <<0>>
    /\ reply = <<NoReply>>
    /\ wire = <<>>

\* One add_user call with arguments of ordinary size.
Init ==
    /\ OneCall(Arguments)
    /\ entropy = CallSeeds
    /\ endpoint = Replies
    /\ dh = [p \in Parties |-> NoKeys]
    /\ vi = NoCodec
    /\ SyncOff

Next ==
    \/ \E c \in Calls : ChooseDeviceId(c)
    \/ \E c \in Calls : GenerateKeypair(c)
    \/ \E c \in Calls : SerializeCredentials(c)
    \/ \E c \in Calls : PadBlob(c)
    \/ \E c \in Calls : XorBlob(c)
    \/ \E c \in Calls : EncryptInner(c)
    \/ \E c \in Calls : WrapOuter(c)
    \/ \E c \in Calls : ComposeRequest(c)
    \/ \E c \in Calls : UrlopenSend(c)
    \/ \E c \in Calls : UrlopenReply(c)

Spec == Init /\ [][Next]_vars

(***************************************************************************)
(* Two add_user calls in flight at once, their statements interleaved in   *)
(* any order: threads of one process, which share os.urandom and nothing   *)
(* else.                                                                   *)
(***************************************************************************)
\* The first call: one account and one device.
FirstArguments ==
    ArgumentsOf({<<97, 108, 105, 99, 101>>}, {<<116, 111, 107, 49, 50, 51>>},
                {<<100, 101, 118, 45, 52, 50>>}, {DeviceKey}, {<<99, 105, 100, 45, 49>>})

\* The second call: the same device with the same arguments, another device
\* with another key and no client device id given, or a device whose key
\* does not decode.
SecondArguments ==
    FirstArguments
        \cup ArgumentsOf({<<97, 108, 105, 99, 101>>}, {sample(5, 2)},
                         {<<100, 101, 118, 45, 52, 51>>},
                         {b64encode(<<255, 255, 254>>)}, {None})
        \cup ArgumentsOf({<<97, 108, 105, 99, 101>>}, {<<116, 111, 107, 49, 50, 51>>},
                         {<<100, 101, 118, 45, 52, 51>>},
                         {<<65, 65, 69>>}, {<<99, 105, 100, 45, 49>>})

\* What the devices answer to the two calls.
PairReplies ==
    { [kind |-> "response", status |-> 200,
       body |-> <<123, 34, 115, 116, 97, 116, 117, 115, 34, 58, 49, 48, 49, 44, 34, 115, 116, 97, 116, 117, 115, 83, 116, 114, 105, 110, 103, 34, 58, 34, 79, 75, 34, 125>>],
      [kind |-> "timeout", status |-> 0, body |-> <<>>] }

InitPair ==
    /\ pc = <<"start", "start">>
    /\ arg \in {<<a, b>> : a \in FirstArguments, b \in SecondArguments}
    /\ loc = <<NoLocals, NoLocals>>
    /\ hist = <<NoHistory, NoHistory>>
    /\ outcome = <<NoOutcome, NoOutcome>>
    /\ opened = <<0, 0>>
    /\ reply = <<NoReply, NoReply>>
    /\ wire = <<>>
    /\ entropy = CallSeeds
    /\ endpoint = PairReplies
    /\ dh = [p \in Parties |-> NoKeys]
    /\ vi = NoCodec
    /\ SyncOff

SpecPair == InitPair /\ [][Next]_vars

\* One add_user call with a username or token of up to 32768 bytes.
InitLong ==
    /\ OneCall(LongArguments)
    /\ entropy = LongSeeds
    /\ endpoint = Replies
    /\ dh = [p \in Parties |-> NoKeys]
    /\ vi = NoCodec
    /\ SyncOff

SpecLong == InitLong /\ [][Next]_vars

\* Two parties exchanging keys.
InitDH ==
    /\ NoCalls
    /\ entropy = RandByte
    /\ endpoint = {}
    /\ dh = [p \in Parties |-> NoKeys]
    /\ vi = NoCodec
    /\ SyncOff

NextDH ==
    \/ \E p \in Parties : DhGenerate(p)
    \/ \E p, q \in Parties : DhAgree(p, q)

SpecDH == InitDH /\ [][NextDH]_vars

\* Parties that generate a keypair and answer whatever public value arrives.
NextPeer ==
    \/ \E p \in Parties : DhGenerate(p)
    \/ \E p \in Parties : DhReceive(p)

SpecPeer == InitDH /\ [][NextPeer]_vars

\* _write_int on every integer up to MaxEncoded.
InitCodec ==
    /\ NoCalls
    /\ entropy = {}
    /\ endpoint = {}
    /\ dh = [p \in Parties |-> NoKeys]
    /\ vi \in {[NoCodec EXCEPT !.stage = "in", !.n = n] : n \in 0..MaxEncoded}
    /\ SyncOff

NextCodec == WriteInt \/ ReadInt

SpecCodec == InitCodec /\ [][NextCodec]_vars

(***************************************************************************)
(* The endpoint's reading of a request body (urllib.parse.parse_qsl with   *)
(* blank values kept): the fields in order, each <<name, value>> as the    *)
(* bytes that the percent-encoding stands for.                             *)
(***************************************************************************)
hex_value(c) == IF c <= 57 THEN c - 48 ELSE IF c <= 70 THEN c - 55 ELSE c - 87

unquote_plus(text) ==
    LET n == Len(text)
        starts(i) == ~(i >= 2 /\ text[i - 1] = 37) /\ ~(i >= 3 /\ text[i - 2] = 37)
        idx == SelectSeq([i \in 1..n |-> i], starts)
    IN  [k \in 1..Len(idx) |->
            LET i == idx[k]
            IN  IF text[i] = 43 THEN 32
                ELSE IF text[i] = 37
                     THEN 16 * hex_value(text[i + 1]) + hex_value(text[i + 2])
                ELSE text[i]]

\* text split at every occurrence of the character sep.
split_at(text, sep) ==
    LET n == Len(text)
        is_sep(i) == text[i] = sep
        cuts == <<0>> \o SelectSeq([i \in 1..n |-> i], is_sep) \o <<n + 1>>
    IN  [k \in 1..(Len(cuts) - 1) |-> SubSeq(text, cuts[k] + 1, cuts[k + 1] - 1)]

parse_qsl(body) ==
    LET fields == IF Len(body) = 0 THEN <<>> ELSE split_at(body, 38)
    IN  [k \in 1..Len(fields) |->
            LET halves == split_at(fields[k], 61)
            IN  <<unquote_plus(halves[1]),
                  IF Len(halves) > 1 THEN unquote_plus(halves[2]) ELSE <<>>>>]

\* The value of the field called name; None when the body has no such field.
field(body, name) ==
    LET items == parse_qsl(body)
        hits == {k \in 1..Len(items) : items[k][1] = name}
    IN  IF hits = {} THEN None ELSE items[CHOOSE k \in hits : \A h \in hits : k <= h][2]

(***************************************************************************)
(* sync_vrt_to_spotify.py, SpotifyClient._request (lines 154-192): one     *)
(* top-level call.  The call "return self._request(..., retry=False)" is   *)
(* the last thing its caller does, so the nested call is the same call     *)
(* continuing with retry = FALSE.  rq.trail is the history of what the     *)
(* call did: the requests it issued, its token refreshes and its sleeps.   *)
(***************************************************************************)
\* bytes.strip(): without the leading and trailing ASCII whitespace.
strip(raw) ==
    LET ws == {9, 10, 11, 12, 13, 32}
        keep == {i \in 1..Len(raw) : raw[i] \notin ws}
    IN  IF keep = {} THEN <<>>
        ELSE SubSeq(raw, CHOOSE i \in keep : \A k \in keep : i <= k,
                         CHOOSE i \in keep : \A k \in keep : i >= k)

\* bytes.decode(): UnicodeDecodeError unless the bytes are UTF-8 (a lead byte
\* followed by as many continuation bytes as it announces).
RECURSIVE utf8_ok(_, _)
utf8_ok(bs, i) ==
    IF i > Len(bs) THEN TRUE
    ELSE LET b == bs[i]
             more == IF b < 128 THEN 0
                     ELSE IF b >= 194 /\ b <= 223 THEN 1
                     ELSE IF b >= 224 /\ b <= 239 THEN 2
                     ELSE IF b >= 240 /\ b <= 244 THEN 3
                     ELSE 4
         IN  /\ more < 4
             /\ i + more <= Len(bs)
             /\ \A k \in (i + 1)..(i + more) : bs[k] >= 128 /\ bs[k] <= 191
             /\ utf8_ok(bs, i + more + 1)

decode(bs) == IF utf8_ok(bs, 1) THEN Ok(bs) ELSE Raise("UnicodeDecodeError")

\* int(text) for a header value: the number its decimal digits denote,
\* ValueError for any other text.
int(text) ==
    IF Len(text) > 0 /\ \A i \in 1..Len(text) : text[i] \in 48..57
    THEN Ok(digits_value(text, 1, Len(text)))
    ELSE Raise("ValueError")

\* How many requests one top-level call issues at most in a run: the API
\* answers 429 only to a request that is not the last one allowed.
MaxRequests == 4

\* The bodies of a 2xx answer: JSON, nothing, white space, not JSON.
SuccessBodies ==
    { <<123, 34, 97, 34, 58, 49, 125>>,  \* {"a":1}
      <<>>,
      <<32, 10>>,
      <<60, 104, 116, 109, 108, 62>> }  \* <html>

\* The bodies of an error answer: JSON, and a byte that is not UTF-8.
ErrorBodies ==
    { <<123, 34, 101, 114, 114, 111, 114, 34, 58, 49, 125>>,  \* {"error":1}
      <<255>> }

\* The Retry-After header of a 429: absent, "2", or a text that is no number.
RetryAfters == {None, <<50>>, <<115, 111, 111, 110>>}

\* What urlopen meets: a 2xx answer, an error status, no connection, no answer.
ApiAnswers ==
    [kind : {"response"}, status : {200}, body : SuccessBodies, retry_after : {None}]
        \cup [kind : {"response"}, status : {204}, body : {<<>>}, retry_after : {None}]
        \cup [kind : {"response"}, status : {401, 404}, body : ErrorBodies, retry_after : {None}]
        \cup [kind : {"response"}, status : {429}, body : {<<>>}, retry_after : RetryAfters]
        \cup [kind : {"URLError", "TimeoutError"}, status : {0}, body : {<<>>}, retry_after : {None}]

\* How _refresh_access_token (lines 123-144) ends: a new token, or the error
\* of its urlopen or of body["access_token"].
RefreshOutcomes == {"ok", "HTTPError", "URLError", "KeyError"}

NoRequest ==
    [at |-> "ensure", retry |-> TRUE, token |-> 1, trail |-> <<>>,
     err |-> [kind |-> "none", status |-> 0, body |-> <<>>, retry_after |-> None],
     result |-> NoOutcome]

\* The requests issued so far.
Issued(trail) == SelectSeq(trail, LAMBDA e : e.ev = "issue")

RqRaise(e) == rq' = [rq EXCEPT !.at = "raised", !.result = Raise(e)]

RqReturn(v) == rq' = [rq EXCEPT !.at = "returned", !.result = Ok(v)]

\* Line 156, _ensure_token (146-148): refresh when the token has expired.
RqEnsureToken ==
    /\ rq.at = "ensure"
    /\ \E expired \in BOOLEAN :
          IF expired
          THEN \E o \in RefreshOutcomes :
                  IF o = "ok"
                  THEN rq' = [rq EXCEPT !.at = "urlopen", !.token = @ + 1,
                                        !.trail = Append(@, [ev |-> "refresh_expired"])]
                  ELSE RqRaise(o)
          ELSE rq' = [rq EXCEPT !.at = "urlopen"]
    /\ UNCHANGED <<call_vars, dh, vi, fd, sy, pl, tl>>

\* Lines 157-178: the request is built and sent, and a 2xx answer is read.
RqUrlopen ==
    /\ rq.at = "urlopen"
    /\ \E a \in ApiAnswers :
          /\ a.status = 429 => Len(Issued(rq.trail)) + 1 < MaxRequests
          /\ LET sent == Append(rq.trail, [ev |-> "issue", retry |-> rq.retry,
                                           token |-> rq.token, status |-> a.status])
                 raw == strip(a.body)
                 parsed == json_loads(raw)
             IN  IF a.kind # "response"
                 THEN rq' = [rq EXCEPT !.at = "raised", !.result = Raise(a.kind),
                                       !.trail = sent]
                 ELSE IF a.status >= 200 /\ a.status <= 299
                 THEN rq' = [rq EXCEPT !.at = "returned", !.trail = sent,
                                       !.result = IF raw = <<>> \/ parsed.exc # "none"
                                                  THEN Ok(None) ELSE parsed]
                 ELSE rq' = [rq EXCEPT !.at = "except", !.trail = sent, !.err = a]
    /\ UNCHANGED <<call_vars, dh, vi, fd, sy, pl, tl>>

\* Lines 179-192: the handler of HTTPError.
RqExcept ==
    /\ rq.at = "except"
    /\ IF rq.err.status = 401 /\ rq.retry
       THEN \E o \in RefreshOutcomes :
               IF o = "ok"
               THEN rq' = [rq EXCEPT !.at = "ensure", !.retry = FALSE, !.token = @ + 1,
                                     !.trail = Append(@, [ev |-> "refresh_401"])]
               ELSE RqRaise(o)
       ELSE IF rq.err.status = 429
       THEN LET retry_after == IF rq.err.retry_after = None THEN Ok(5)
                               ELSE int(rq.err.retry_after)
            IN  IF retry_after.exc # "none" THEN RqRaise(retry_after.exc)
                ELSE rq' = [rq EXCEPT !.at = "ensure", !.retry = FALSE,
                                      !.trail = Append(@, [ev |-> "sleep"])]
       ELSE IF rq.err.status = 204 THEN RqReturn(None)
       ELSE LET body_text == decode(rq.err.body)
            IN  IF body_text.exc # "none" THEN RqRaise(body_text.exc)
                ELSE RqReturn(None)
    /\ UNCHANGED <<call_vars, dh, vi, fd, sy, pl, tl>>

InitRequest ==
    /\ NoCalls
    /\ entropy = {}
    /\ endpoint = {}
    /\ dh = [p \in Parties |-> NoKeys]
    /\ vi = NoCodec
    /\ rq = NoRequest
    /\ fd = Off
    /\ sy = Off
    /\ pl = Off
    /\ tl = Off

NextRequest == RqEnsureToken \/ RqUrlopen \/ RqExcept

SpecRequest == InitRequest /\ [][NextRequest]_vars

(***************************************************************************)
(* sync_vrt_to_spotify.py, find_device (lines 449-482): one call.          *)
(* fd.trail is the history of the call: its polls, failed or hit, the mDNS *)
(* step, and its sleeps.                                                   *)
(***************************************************************************)
\* str.lower() on the letters A-Z; the names below have no other capitals.
lower(text) == [i \in 1..Len(text) |-> IF text[i] \in 65..90 THEN text[i] + 32 ELSE text[i]]

\* The largest retries argument of a run.
MaxRetries == 5

\* The names find_device is asked for: "Kitchen", and the empty name.
TargetNames == {<<75, 105, 116, 99, 104, 101, 110>>, <<>>}

\* What get_devices returns: no device; another device; the device in
\* capitals; the device twice, after another one, in small letters first;
\* a device without a name.
DeviceLists ==
    { <<>>,
      << [name |-> <<79, 102, 102, 105, 99, 101>>, id |-> <<111, 49>>] >>,
      << [name |-> <<75, 73, 84, 67, 72, 69, 78>>, id |-> <<107, 49>>] >>,
      << [name |-> <<79, 102, 102, 105, 99, 101>>, id |-> <<111, 49>>],
         [name |-> <<107, 105, 116, 99, 104, 101, 110>>, id |-> <<107, 50>>],
         [name |-> <<75, 105, 116, 99, 104, 101, 110>>, id |-> <<107, 51>>] >>,
      << [name |-> None, id |-> <<120, 49>>] >> }

\* device.get("name", "")
name_of(device) == IF device.name = None THEN <<>> ELSE device.name

\* What discover_and_wake_device returns: nothing, or the id it woke.
WakeResults == {None, <<107, 49>>}

NoSearch ==
    [at |-> "loop", name |-> <<>>, retries |-> 0, attempt |-> 0, mdns_attempted |-> FALSE,
     devices |-> <<>>, trail |-> <<>>, result |-> NoOutcome, device_name |-> None]

\* Lines 458 and 482: the next attempt, or None when there is none left.
FdLoop ==
    /\ fd.at = "loop"
    /\ fd' = IF fd.attempt < fd.retries
             THEN [fd EXCEPT !.attempt = @ + 1, !.at = "poll"]
             ELSE [fd EXCEPT !.at = "returned", !.result = Ok(None)]
    /\ UNCHANGED <<call_vars, dh, vi, rq, sy, pl, tl>>

\* Variant of lines 459-469 that compares the names as they are.
FdPollExact ==
    /\ fd.at = "poll"
    /\ \/ fd' = [fd EXCEPT !.at = "raised", !.result = Raise("URLError"),
                           !.trail = Append(@, "poll_raised")]
       \/ \E devices \in DeviceLists :
             LET hits == {i \in 1..Len(devices) : name_of(devices[i]) = fd.name}
                 first == CHOOSE i \in hits : \A k \in hits : i <= k
             IN  fd' = IF hits # {}
                       THEN [fd EXCEPT !.at = "returned", !.devices = devices,
                                       !.trail = Append(@, "poll_hit"),
                                       !.device_name = devices[first].name,
                                       !.result = Ok(devices[first].id)]
                       ELSE [fd EXCEPT !.at = "wake", !.devices = devices,
                                       !.trail = Append(@, "poll_failed")]
    /\ UNCHANGED <<call_vars, dh, vi, rq, sy, pl, tl>>

\* Lines 459-469: get_devices, which may raise, and the search of its result.
FdPoll ==
    /\ fd.at = "poll"
    /\ \/ fd' = [fd EXCEPT !.at = "raised", !.result = Raise("URLError"),
                           !.trail = Append(@, "poll_raised")]
       \/ \E devices \in DeviceLists :
             LET hits == {i \in 1..Len(devices) :
                             lower(name_of(devices[i])) = lower(fd.name)}
                 first == CHOOSE i \in hits : \A k \in hits : i <= k
             IN  fd' = IF hits # {}
                       THEN [fd EXCEPT !.at = "returned", !.devices = devices,
                                       !.trail = Append(@, "poll_hit"),
                                       !.device_name = devices[first].name,
                                       !.result = Ok(devices[first].id)]
                       ELSE [fd EXCEPT !.at = "wake", !.devices = devices,
                                       !.trail = Append(@, "poll_failed")]
    /\ UNCHANGED <<call_vars, dh, vi, rq, sy, pl, tl>>

\* Lines 471-477: the mDNS step after the third attempt, once.
FdWake ==
    /\ fd.at = "wake"
    /\ IF fd.attempt = 3 /\ ~fd.mdns_attempted
       THEN \/ fd' = [fd EXCEPT !.at = "raised", !.result = Raise("OSError"),
                                !.mdns_attempted = TRUE, !.trail = Append(@, "wake")]
            \/ \E mdns_id \in WakeResults :
                  fd' = IF mdns_id # None
                        THEN [fd EXCEPT !.at = "loop", !.mdns_attempted = TRUE,
                                        !.trail = @ \o <<"wake", "sleep">>]
                        ELSE [fd EXCEPT !.at = "delay", !.mdns_attempted = TRUE,
                                        !.trail = Append(@, "wake")]
       ELSE fd' = [fd EXCEPT !.at = "delay"]
    /\ UNCHANGED <<call_vars, dh, vi, rq, sy, pl, tl>>

\* Lines 479-480: the pause before the next attempt.
FdDelay ==
    /\ fd.at = "delay"
    /\ fd' = IF fd.attempt < fd.retries
             THEN [fd EXCEPT !.at = "loop", !.trail = Append(@, "sleep")]
             ELSE [fd EXCEPT !.at = "loop"]
    /\ UNCHANGED <<call_vars, dh, vi, rq, sy, pl, tl>>

InitSearch ==
    /\ NoCalls
    /\ entropy = {}
    /\ endpoint = {}
    /\ dh = [p \in Parties |-> NoKeys]
    /\ vi = NoCodec
    /\ rq = Off
    /\ fd \in {[NoSearch EXCEPT !.name = n, !.retries = r] :
                  n \in TargetNames, r \in 0..MaxRetries}
    /\ sy = Off
    /\ pl = Off
    /\ tl = Off

NextSearch == FdLoop \/ FdPoll \/ FdWake \/ FdDelay

SpecSearch == InitSearch /\ [][NextSearch]_vars

(***************************************************************************)
(* sync_vrt_to_spotify.py, sync_new_songs (lines 510-534) with             *)
(* search_and_add_song (353-377): the calls that main's loop (668-679)     *)
(* makes one after the other on the same seen_songs and not_found_songs.   *)
(* An exception leaves the call; main prints it and goes on to the next    *)
(* call.  sy.queued counts, per key, the additions that Spotify accepted;  *)
(* sy.found and sy.failed are the keys for which a search found a URI or   *)
(* found none; sy.again are the keys searched while in one of the sets.    *)
(***************************************************************************)
\* Line 284: f"{song['artist']}::{song['title']}::{song['start_date']}"
song_key(song) == song.artist \o <<58, 58>> \o song.title \o <<58, 58>> \o song.start_date

\* Songs of the playlist: two songs, the first of them played again later,
\* an entry without title, and a song that is sixth in a list.
SongA == [artist |-> <<65>>, title |-> <<120>>, start_date |-> <<49>>]

SongB == [artist |-> <<66>>, title |-> <<121>>, start_date |-> <<50>>]

SongAgain == [artist |-> <<65>>, title |-> <<120>>, start_date |-> <<51>>]

Untitled == [artist |-> <<67>>, title |-> <<>>, start_date |-> <<52>>]

SongSixth == [artist |-> <<68>>, title |-> <<122>>, start_date |-> <<53>>]

\* What fetch_vrt_playlist returns: nothing, or a list, newest first.
Playlists ==
    { <<>>,
      <<SongA>>,
      <<SongB, SongA>>,
      <<SongAgain, Untitled, SongB, SongA>>,
      <<SongA, SongA, SongB, SongB, SongA, SongSixth>> }

SongKeys == {song_key(s) : s \in {SongA, SongB, SongAgain, Untitled, SongSixth}}

\* vrt_songs[:n]
take(list, n) == SubSeq(list, 1, IF Len(list) < n THEN Len(list) ELSE n)

\* How many sync_new_songs calls a run has.
MaxSyncs == 3

\* How add_to_queue (lines 234-236) ends: it returns or raises, and Spotify
\* has accepted the track or not.  Returning without acceptance is an HTTP
\* error that _request swallows; raising after acceptance is an answer that
\* did not arrive in time.
QueueOutcomes == [raised : BOOLEAN, accepted : BOOLEAN]

NoSync ==
    [at |-> "idle", calls |-> 0, seen_songs |-> {}, not_found_songs |-> {},
     songs |-> <<>>, i |-> 0, key |-> <<>>,
     queued |-> [k \in SongKeys |-> 0], found |-> {}, failed |-> {}, again |-> {}]

\* Lines 657-661: the sets when the loop starts, empty or holding the keys
\* that build_initial_uris (lines 487-507) has found a URI for.
AfterInitialSync ==
    [NoSync EXCEPT !.seen_songs = {song_key(SongB)}, !.found = {song_key(SongB)}]

\* Lines 514-520: a call starts and fetches the playlist.
SyFetch ==
    /\ sy.at = "idle"
    /\ sy.calls < MaxSyncs
    /\ \E vrt_songs \in Playlists :
          sy' = IF vrt_songs = <<>>
                THEN [sy EXCEPT !.calls = @ + 1]
                ELSE [sy EXCEPT !.calls = @ + 1, !.at = "song",
                                !.songs = take(vrt_songs, 5), !.i = 1]
    /\ UNCHANGED <<call_vars, dh, vi, rq, fd, pl, tl>>

\* Lines 521-525: the next song of the list, skipped when it lacks a title
\* or an artist or when its key is in one of the sets.
SySong ==
    /\ sy.at = "song"
    /\ sy' = IF sy.i > Len(sy.songs) THEN [sy EXCEPT !.at = "idle"]
             ELSE LET song == sy.songs[sy.i]
                      key == song_key(song)
                  IN  IF song.title = <<>> \/ song.artist = <<>>
                      THEN [sy EXCEPT !.i = @ + 1]
                      ELSE IF key \notin sy.seen_songs /\ key \notin sy.not_found_songs
                      THEN [sy EXCEPT !.at = "search", !.key = key]
                      ELSE [sy EXCEPT !.i = @ + 1]
    /\ UNCHANGED <<call_vars, dh, vi, rq, fd, pl, tl>>

\* Line 527 and lines 353-377: the three queries find a URI, or none does
\* and the key is added to not_found_songs, or spotify.search raises.
SySearch ==
    /\ sy.at = "search"
    /\ LET known == sy.seen_songs \cup sy.not_found_songs
           again == IF sy.key \in known THEN sy.again \cup {sy.key} ELSE sy.again
       IN  \/ sy' = [sy EXCEPT !.at = "idle", !.again = again]
           \/ sy' = [sy EXCEPT !.at = "queue", !.again = again, !.found = @ \cup {sy.key}]
           \/ sy' = [sy EXCEPT !.at = "song", !.again = again, !.i = @ + 1,
                               !.failed = @ \cup {sy.key},
                               !.not_found_songs = @ \cup {sy.key}]
    /\ UNCHANGED <<call_vars, dh, vi, rq, fd, pl, tl>>

\* Lines 528-531: add_to_queue, then seen_songs.add(key) when it returned.
SyQueue ==
    /\ sy.at = "queue"
    /\ \E o \in QueueOutcomes :
          LET known == sy.seen_songs \cup sy.not_found_songs
              again == IF sy.key \in known THEN sy.again \cup {sy.key} ELSE sy.again
              queued == IF o.accepted THEN [sy.queued EXCEPT ![sy.key] = @ + 1]
                        ELSE sy.queued
          IN  sy' = IF o.raised
                    THEN [sy EXCEPT !.at = "idle", !.queued = queued, !.again = again]
                    ELSE [sy EXCEPT !.at = "song", !.queued = queued, !.again = again,
                                    !.i = @ + 1, !.seen_songs = @ \cup {sy.key}]
    /\ UNCHANGED <<call_vars, dh, vi, rq, fd, pl, tl>>

InitSync ==
    /\ NoCalls
    /\ entropy = {}
    /\ endpoint = {}
    /\ dh = [p \in Parties |-> NoKeys]
    /\ vi = NoCodec
    /\ rq = Off
    /\ fd = Off
    /\ sy \in {NoSync, AfterInitialSync}
    /\ pl = Off
    /\ tl = Off

NextSync == SyFetch \/ SySong \/ SySearch \/ SyQueue

SpecSync == InitSync /\ [][NextSync]_vars

(***************************************************************************)
(* sync_vrt_to_spotify.py, the control server's /play handler              *)
(* (ControlHandler._handle_play, lines 557-573) next to main (643-663),    *)
(* which fills the shared AppState (lines 96-103) while the server thread  *)
(* answers requests, one at a time (HTTPServer, line 618).  pl.playing is  *)
(* what Spotify is doing; pl.log has one record per answered request: the  *)
(* status code, the Spotify operations called, whether client and device   *)
(* id were set, what get_playback_state told, the pending list before the  *)
(* handler's last step and after it, whether start_playback or             *)
(* transfer_playback returned and whether Spotify accepted it.             *)
(***************************************************************************)
\* How many /play requests a run has.
MaxPlays == 3

\* The device id that find_device gave (line 654).
DeviceId == <<100, 49>>

\* What build_initial_uris returns (line 661): no URI, or a list.
InitialUris == {<<>>, << <<117, 49>>, <<117, 50>> >>}

\* What get_playback_state (lines 216-218) gives: nothing (None), a state
\* that is not playing, a state that is playing, or an exception.
PlaybackStates == {"None", "paused", "is_playing", "raise"}

\* How start_playback and transfer_playback (lines 220-228) end: they return
\* or raise, and Spotify has accepted the request or not.
PlayOutcomes == [raised : BOOLEAN, accepted : BOOLEAN]

NoRequestYet ==
    [code |-> 0, ops |-> <<>>, ready |-> FALSE, ps |-> "", before |-> <<>>,
     after |-> <<>>, returned |-> FALSE, accepted |-> FALSE]

NoPlay ==
    [main |-> "new", spotify |-> FALSE, device_id |-> None, initial_uris |-> <<>>,
     playing |-> FALSE, at |-> "idle", plays |-> 0, cur |-> NoRequestYet, log |-> <<>>]

\* self._respond(code, ...) and the end of the handler
PlRespond(p, code) ==
    [p EXCEPT !.at = "idle", !.log = Append(@, [p.cur EXCEPT !.code = code,
                                                             !.after = p.initial_uris]),
              !.cur = NoRequestYet]

\* Line 643: state.spotify = spotify
PlMainClient ==
    /\ pl.main = "new"
    /\ pl' = [pl EXCEPT !.main = "client", !.spotify = TRUE]
    /\ UNCHANGED <<call_vars, dh, vi, rq, fd, sy, tl>>

\* Lines 647-654: state.device_id = device_id, once find_device gave one
PlMainDevice ==
    /\ pl.main = "client"
    /\ pl' = [pl EXCEPT !.main = "device", !.device_id = DeviceId]
    /\ UNCHANGED <<call_vars, dh, vi, rq, fd, sy, tl>>

\* Lines 661-663: uris = build_initial_uris(...); if uris: state.initial_uris = uris
PlMainUris ==
    /\ pl.main = "device"
    /\ \E uris \in InitialUris :
          pl' = [pl EXCEPT !.main = "loop",
                           !.initial_uris = IF uris # <<>> THEN uris ELSE @]
    /\ UNCHANGED <<call_vars, dh, vi, rq, fd, sy, tl>>

\* Spotify stops playing: /stop, another client, the end of the tracks.
PlStops ==
    /\ pl.playing
    /\ pl' = [pl EXCEPT !.playing = FALSE]
    /\ UNCHANGED <<call_vars, dh, vi, rq, fd, sy, tl>>

\* Lines 558-560: a /play request; 503 unless client and device id are set
PlCheck ==
    /\ pl.at = "idle"
    /\ pl.plays < MaxPlays
    /\ LET ready == pl.spotify /\ pl.device_id # None /\ pl.device_id # <<>>
           p == [pl EXCEPT !.plays = @ + 1, !.cur.ready = ready,
                           !.cur.before = pl.initial_uris]
       IN  pl' = IF ~ready THEN PlRespond(p, 503) ELSE [p EXCEPT !.at = "state"]
    /\ UNCHANGED <<call_vars, dh, vi, rq, fd, sy, tl>>

\* Lines 562-565 and 572-573: get_playback_state; 200 already_playing when
\* it tells is_playing, 500 when it raises
PlState ==
    /\ pl.at = "state"
    /\ \E ps \in PlaybackStates :
          /\ ps = "is_playing" => pl.playing
          /\ ps = "paused" => ~pl.playing
          /\ LET p == [pl EXCEPT !.cur.ops = Append(@, "get_playback_state"),
                                 !.cur.ps = ps, !.cur.before = pl.initial_uris]
             IN  pl' = CASE ps = "raise" -> PlRespond(p, 500)
                         [] ps = "is_playing" -> PlRespond(p, 200)
                         [] OTHER -> [p EXCEPT !.at = "act"]
    /\ UNCHANGED <<call_vars, dh, vi, rq, fd, sy, tl>>

\* Lines 566-573: start_playback with the pending list, which is emptied
\* when the call returned, or transfer_playback when no list is pending;
\* 200 playing, or 500 when the call raised
PlAct ==
    /\ pl.at = "act"
    /\ \E o \in PlayOutcomes :
          LET op == IF pl.initial_uris # <<>> THEN "start_playback"
                    ELSE "transfer_playback"
              p == [pl EXCEPT !.cur.ops = Append(@, op),
                              !.cur.before = pl.initial_uris,
                              !.cur.returned = ~o.raised,
                              !.cur.accepted = o.accepted,
                              !.playing = IF o.accepted THEN TRUE ELSE @]
          IN  pl' = IF o.raised THEN PlRespond(p, 500)
                    ELSE PlRespond([p EXCEPT !.initial_uris = <<>>], 200)
    /\ UNCHANGED <<call_vars, dh, vi, rq, fd, sy, tl>>

InitPlay ==
    /\ NoCalls
    /\ entropy = {}
    /\ endpoint = {}
    /\ dh = [p \in Parties |-> NoKeys]
    /\ vi = NoCodec
    /\ rq = Off
    /\ fd = Off
    /\ sy = Off
    /\ pl = NoPlay
    /\ tl = Off

NextPlay == PlMainClient \/ PlMainDevice \/ PlMainUris \/ PlStops \/ PlCheck \/ PlState \/ PlAct

SpecPlay == InitPlay /\ [][NextPlay]_vars

(***************************************************************************)
(* sync_vrt_to_mopidy.py, prune_old_tracks (lines 387-429) talking to a    *)
(* Mopidy server that holds the tracklist tl.tracks (the tlids, in list    *)
(* order) and plays entry tl.playing (0: nothing).  Every call of the      *)
(* client gives None when the request fails (_call, lines 70-77).  The     *)
(* server moves on to the next entry on its own while the function runs.   *)
(* tl.removed are the tlids that the function's remove calls took out.     *)
(***************************************************************************)
\* The largest tlid of a tracklist entry.
MaxTlid == 4

Range(list) == {list[i] : i \in 1..Len(list)}

\* The tracklists: entries with distinct tlids, in any order.
Tracklists ==
    {list \in UNION {[1..n -> 1..MaxTlid] : n \in 0..MaxTlid} :
        Cardinality(Range(list)) = Len(list)}

\* The values of max_playlist_length.
MaxLengths == {1, 3}

\* [tlid for tlid in list if tlid < bound], as a list and in its order
below(list, bound) == SelectSeq(list, LAMBDA tlid : tlid < bound)

without(list, tlid) == SelectSeq(list, LAMBDA other : other # tlid)

\* prune_old_tracks returns a value and ends
PrReturn(value) == [tl EXCEPT !.at = "done", !.result = Ok(value)]

\* Lines 395-401: get_tracklist_length and the comparison with the maximum,
\* which raises TypeError when the call gave None
PrLength ==
    /\ tl.at = "length"
    /\ \E failed \in BOOLEAN :
          tl' = IF failed THEN [tl EXCEPT !.at = "done", !.result = Raise("TypeError")]
                ELSE IF Len(tl.tracks) <= tl.max_playlist_length
                THEN [PrReturn(FALSE) EXCEPT !.tracklist_length = Len(tl.tracks)]
                ELSE [tl EXCEPT !.at = "current", !.tracklist_length = Len(tl.tracks)]
    /\ UNCHANGED <<call_vars, dh, vi, rq, fd, sy, pl>>

\* Lines 403-408: get_current_tl_track; False when it gave nothing
PrCurrent ==
    /\ tl.at = "current"
    /\ \E failed \in BOOLEAN :
          tl' = IF failed \/ tl.playing = 0
                THEN [PrReturn(FALSE) EXCEPT !.played = tl.playing]
                ELSE [tl EXCEPT !.at = "list", !.played = tl.playing,
                                !.current_tlid = tl.playing]
    /\ UNCHANGED <<call_vars, dh, vi, rq, fd, sy, pl>>

\* The variant that also takes the entry with the current tlid.
PrListInclusive ==
    /\ tl.at = "list"
    /\ \E failed \in BOOLEAN :
          tl' = IF failed \/ tl.tracks = <<>> THEN PrReturn(FALSE)
                ELSE LET tracks_to_remove == below(tl.tracks, tl.current_tlid + 1)
                     IN  IF tracks_to_remove = <<>> THEN PrReturn(FALSE)
                         ELSE [tl EXCEPT !.at = "remove",
                                         !.tracks_to_remove = tracks_to_remove]
    /\ UNCHANGED <<call_vars, dh, vi, rq, fd, sy, pl>>

\* Lines 410-419 and 427-429: get_tl_tracks; the entries whose tlid is below
\* the current one are to be removed; False when there is none
PrList ==
    /\ tl.at = "list"
    /\ \E failed \in BOOLEAN :
          tl' = IF failed \/ tl.tracks = <<>> THEN PrReturn(FALSE)
                ELSE LET tracks_to_remove == below(tl.tracks, tl.current_tlid)
                     IN  IF tracks_to_remove = <<>> THEN PrReturn(FALSE)
                         ELSE [tl EXCEPT !.at = "remove",
                                         !.tracks_to_remove = tracks_to_remove]
    /\ UNCHANGED <<call_vars, dh, vi, rq, fd, sy, pl>>

\* Lines 421-426: remove_tracks for one criterion after the other, then True
PrRemove ==
    /\ tl.at = "remove"
    /\ IF tl.tracks_to_remove = <<>> THEN tl' = PrReturn(TRUE)
       ELSE \E failed \in BOOLEAN :
               LET tlid == Head(tl.tracks_to_remove)
                   rest == [tl EXCEPT !.tracks_to_remove = Tail(@)]
               IN  tl' = IF failed \/ tlid \notin Range(tl.tracks) THEN rest
                         ELSE [rest EXCEPT !.tracks = without(@, tlid),
                                           !.removed = @ \cup {tlid},
                                           !.playing = IF @ = tlid THEN 0 ELSE @]
    /\ UNCHANGED <<call_vars, dh, vi, rq, fd, sy, pl>>

\* The server ends the entry it plays and goes on to the one after it in
\* the list, or stops after the last.
MpNext ==
    /\ tl.at \in {"length", "current", "list", "remove"}
    /\ tl.playing # 0
    /\ LET i == CHOOSE k \in 1..Len(tl.tracks) : tl.tracks[k] = tl.playing
       IN  tl' = [tl EXCEPT !.playing = IF i < Len(tl.tracks) THEN tl.tracks[i + 1]
                                        ELSE 0]
    /\ UNCHANGED <<call_vars, dh, vi, rq, fd, sy, pl>>

InitPrune ==
    /\ NoCalls
    /\ entropy = {}
    /\ endpoint = {}
    /\ dh = [p \in Parties |-> NoKeys]
    /\ vi = NoCodec
    /\ rq = Off
    /\ fd = Off
    /\ sy = Off
    /\ pl = Off
    /\ \E tracks \in Tracklists, max \in MaxLengths :
       \E playing \in Range(tracks) \cup {0} :
          tl = [at |-> "length", max_playlist_length |-> max, tracks |-> tracks,
                playing |-> playing, before |-> tracks, tracklist_length |-> -1,
                played |-> -1, current_tlid |-> 0, tracks_to_remove |-> <<>>,
                removed |-> {}, result |-> Ok(None)]

NextPrune == PrLength \/ PrCurrent \/ PrList \/ PrRemove \/ MpNext

SpecPrune == InitPrune /\ [][NextPrune]_vars

(***************************************************************************)
(* Properties                                                              *)
(***************************************************************************)
\* The encoding of n the format prescribes, in arithmetic.
ExpectedVarint(n) == IF n <= 127 THEN <<n>> ELSE <<128 + (n % 128), n \div 128>>

\* C3: for every n with 0 <= n <= 16383, decoding the output of _write_int(n)
\* (one byte b if its high bit is clear, else (b0 & 0x7f) | (b1 << 7)) yields n
\* again, and the output is 1 byte long when n <= 127 and 2 bytes long otherwise.
C3_RoundTrip ==
    (vi.stage \in {"written", "read"} /\ vi.n <= 16383) =>
        /\ vi.out.exc = "none"
        /\ Len(vi.out.val) = (IF vi.n <= 127 THEN 1 ELSE 2)
        /\ vi.stage = "read" => vi.decoded = vi.n

C3_Witness ==
    /\ vi.stage = "read"
    /\ vi.n = 16383
    /\ vi.decoded = 16383
    /\ Len(vi.out.val) = 2

\* C4: _write_int returns the single byte [n] when n <= 127 and otherwise the
\* two bytes [(n & 0x7f) | 0x80, n >> 7] (for every n whose n >> 7 is a byte,
\* so up to 32767); 127 is encoded in one byte and 128 as 0x80 0x01.
C4_Layout ==
    vi.stage \in {"written", "read"} =>
        /\ vi.n <= 32767 => vi.out = Ok(ExpectedVarint(vi.n))
        /\ vi.out.exc = "none" => vi.out.val = ExpectedVarint(vi.n)
        /\ vi.n = 127 => vi.out.val = <<127>>
        /\ vi.n = 128 => vi.out.val = <<128, 1>>

C4_Witness ==
    /\ vi.stage = "written"
    /\ vi.n = 128
    /\ vi.out = Ok(<<128, 1>>)


(***************************************************************************)
(* Key exchange                                                            *)
(***************************************************************************)
\* C5: the shared secret is symmetric: when two parties with independently
\* generated keypairs have each computed the secret from the other's base64
\* public value and their own private scalar, the two secrets are the same
\* KEY_BYTES bytes; the computation does not fail on a generated public value.
C5_SharedSymmetric ==
    /\ \A p \in Parties : dh[p].stage \in {"none", "keyed", "agreed"}
    /\ \A p, q \in Parties :
          (p # q /\ dh[p].stage = "agreed" /\ dh[q].stage = "agreed") =>
              /\ dh[p].shared = dh[q].shared
              /\ Len(dh[p].shared) = KEY_BYTES

C5_Witness ==
    /\ dh["A"].stage = "agreed" /\ dh["B"].stage = "agreed"
    /\ dh["A"].private = 255 /\ dh["B"].private = 127
    /\ dh["A"].shared = dh["B"].shared
    /\ from_bytes(dh["A"].shared) > 255

\* b^k mod PRIME by repeated multiplication, for small k.
RECURSIVE PowerOf(_, _)
PowerOf(b, k) == IF k = 0 THEN 1 % PRIME ELSE (b * PowerOf(b, k - 1)) % PRIME

\* b^e mod PRIME, the exponent read in base 16: b^e = b^(e % 16) * (b^16)^(e div 16).
RECURSIVE PowerMod(_, _)
PowerMod(b, e) ==
    IF e < 16 THEN PowerOf(b, e)
    ELSE LET b16 == PowerOf(b, 16)
         IN  (PowerOf(b, e % 16) * PowerMod(b16, e \div 16)) % PRIME

ExpectedPublic(e) == PowerMod(GENERATOR, e)

\* C6: every generated keypair has a private scalar in [0, 256^(KEY_BYTES-1))
\* and a public value of exactly KEY_BYTES bytes that reads big-endian as
\* GENERATOR^private mod PRIME (so it is zero-padded on the left when the
\* integer is shorter); generation never fails with an overflow.
C6_Keypair ==
    \A p \in Parties :
        /\ dh[p].stage # "OverflowError"
        /\ dh[p].stage \in {"keyed", "agreed"} =>
              /\ dh[p].private >= 0
              /\ dh[p].private < Pow256(KEY_BYTES - 1)
              /\ Len(dh[p].public) = KEY_BYTES
              /\ \A i \in 1..KEY_BYTES : dh[p].public[i] \in 0..255
              /\ from_bytes(dh[p].public) = ExpectedPublic(dh[p].private)

C6_Witness ==
    /\ dh["A"].stage = "keyed"
    /\ dh["A"].private = 3
    /\ dh["A"].public = <<0, 8>>

(***************************************************************************)
(* The inner blob                                                          *)
(***************************************************************************)
\* The positions of add_user after the named statement has completed.
AfterSerialize ==
    {"pad", "xor", "encrypt", "outer", "compose", "urlopen", "await", "returned"}

AfterPad == AfterSerialize \ {"pad"}

AfterXor == AfterPad \ {"xor"}

AfterEncrypt == AfterXor \ {"encrypt"}

\* C7: before padding and the XOR transform the inner plaintext is 0x00,
\* varint(len(usernameBytes)), usernameBytes, 0x00, 0x04, 0x00,
\* varint(len(tokenBytes)), tokenBytes, in that order, the lengths being the
\* byte lengths of the UTF-8 encodings.
C7_PlaintextLayout ==
    \A c \in Calls :
        pc[c] \in AfterSerialize =>
            LET usernameBytes == encode(arg[c].username)
                tokenBytes == encode(arg[c].access_token)
            IN  hist[c].plain =
                    <<0>> \o ExpectedVarint(Len(usernameBytes)) \o usernameBytes
                        \o <<0, 4, 0>>
                        \o ExpectedVarint(Len(tokenBytes)) \o tokenBytes

\* A username of two characters and five bytes, a token of three characters
\* and four bytes.
C7_Witness ==
    \E c \in Calls :
        /\ pc[c] = "pad"
        /\ arg[c].username = <<233, 8364>>
        /\ arg[c].access_token = <<116, 246, 107>>
        /\ hist[c].plain = <<0, 5, 195, 169, 226, 130, 172, 0, 4, 0, 4, 116, 195, 182, 107>>

\* C8: the length of the inner blob is a multiple of 16 before the XOR
\* transform and after it, the transform keeps the length, and so does the
\* encryption that follows.
C8_BlockMultiple ==
    \A c \in Calls :
        /\ pc[c] \in AfterPad =>
              /\ Len(hist[c].padded) % 16 = 0
              /\ Len(hist[c].padded) >= Len(hist[c].plain)
              /\ Len(hist[c].padded) < Len(hist[c].plain) + 16
        /\ pc[c] \in AfterXor =>
              /\ Len(loc[c].raw) = Len(hist[c].padded)
              /\ Len(loc[c].raw) % 16 = 0
        /\ pc[c] \in AfterEncrypt =>
              /\ Len(loc[c].inner) = Len(loc[c].raw)
              /\ Len(loc[c].inner) % 16 = 0

\* A plaintext of 15 bytes padded to 16, transformed and encrypted.
C8_Witness ==
    \E c \in Calls :
        /\ pc[c] = "outer"
        /\ Len(hist[c].plain) = 15
        /\ Len(hist[c].padded) = 16
        /\ Len(loc[c].raw) = 16
        /\ Len(loc[c].inner) = 16

\* The exclusive or of two bytes, bit by bit.
Bit(a, k) == (a \div (2 ^ k)) % 2

Xor8(a, b) ==
    LET d(k) == (Bit(a, k) + Bit(b, k)) % 2
    IN  d(0) + 2 * d(1) + 4 * d(2) + 8 * d(3) + 16 * d(4) + 32 * d(5) + 64 * d(6) + 128 * d(7)

\* C9: the XOR transform leaves bytes 0..15 of the padded buffer unchanged
\* and for every j >= 16 the result's byte j is the padded buffer's byte j
\* XOR the result's byte j-16 (the already transformed value).
C9_XorTransform ==
    \A c \in Calls :
        pc[c] \in AfterXor =>
            LET in == hist[c].padded
                out == loc[c].raw
            IN  /\ Len(out) = Len(in)
                /\ \A i \in 1..Len(out) :
                      out[i] = IF i <= 16 THEN in[i] ELSE Xor8(in[i], out[i - 16])

\* A buffer of three blocks or more in which a byte of the third block differs
\* from the XOR of the two original bytes, the earlier one having changed.
C9_Witness ==
    \E c \in Calls :
        /\ pc[c] = "encrypt"
        /\ Len(loc[c].raw) >= 48
        /\ loc[c].raw[18] # hist[c].padded[18]
        /\ loc[c].raw[34] # Xor8(hist[c].padded[34], hist[c].padded[18])
        /\ loc[c].raw[34] = Xor8(hist[c].padded[34], loc[c].raw[18])

\* C10: the inner key is a function of (deviceId, username) alone, whatever
\* the token, the device key, the client device id and the random draws of
\* the call: it is 24 bytes, the 20-byte SHA1 digest of the PBKDF2 output for
\* that pair followed by 00 00 00 14.
C10_InnerKey ==
    \A c \in Calls :
        pc[c] \in AfterEncrypt =>
            LET base_key == pbkdf2_hmac_sha1(20, encode(arg[c].username), 256,
                                             sha1(encode(arg[c].device_id)))
            IN  /\ Len(loc[c].key) = 24
                /\ Len(base_key) = 20
                /\ SubSeq(loc[c].key, 1, 20) = sha1(base_key)
                /\ SubSeq(loc[c].key, 21, 24) = <<0, 0, 0, 20>>

\* The key of ("dev-42", "alice") in a call with a generated client device id.
C10_Witness ==
    \E c \in Calls :
        /\ pc[c] = "outer"
        /\ arg[c].device_id = <<100, 101, 118, 45, 52, 50>>
        /\ arg[c].username = <<97, 108, 105, 99, 101>>
        /\ arg[c].client_device_id = None
        /\ Len(loc[c].key) = 24
        /\ SubSeq(loc[c].key, 21, 24) = <<0, 0, 0, 20>>

(***************************************************************************)
(* The call as a whole                                                     *)
(***************************************************************************)
\* {"status":101,"statusString":"OK"}
StatusOkBody ==
    <<123, 34, 115, 116, 97, 116, 117, 115, 34, 58, 49, 48, 49, 44, 34, 115, 116, 97, 116, 117, 115, 83, 116, 114, 105, 110, 103, 34, 58, 34, 79, 75, 34, 125>>

\* The bodies of the endpoint that are JSON texts: the one above, {} and [1, 2].
JsonBodies == {StatusOkBody, <<123, 125>>, <<91, 49, 44, 32, 50, 93>>}

\* The structure each of them denotes.
ParsedBody(body) ==
    IF body = StatusOkBody
    THEN [t |-> "dict",
          v |-> << <<(<<115, 116, 97, 116, 117, 115>>), [t |-> "int", v |-> 101]>>,
                   <<(<<115, 116, 97, 116, 117, 115, 83, 116, 114, 105, 110, 103>>),
                     [t |-> "str", v |-> <<79, 75>>]>> >>]
    ELSE IF body = <<123, 125>> THEN [t |-> "dict", v |-> <<>>]
    ELSE [t |-> "list", v |-> <<[t |-> "int", v |-> 1], [t |-> "int", v |-> 2]>>]

Finished(c) == pc[c] \in {"returned", "raised"}

\* What the endpoint received from call c is one request whose body has a
\* non-empty blob field, a non-empty clientKey field and the username as userName.
ReceivedWellFormed(c) ==
    /\ opened[c] = 1
    /\ Cardinality({k \in 1..Len(wire) : wire[k].call = c}) = 1
    /\ \A k \in 1..Len(wire) :
          wire[k].call = c =>
              LET body == wire[k].req.data
              IN  /\ wire[k].req.method = "POST"
                  /\ field(body, S_BLOB) \notin {None, <<>>}
                  /\ field(body, S_CLIENTKEY) \notin {None, <<>>}
                  /\ field(body, S_USERNAME) = encode(arg[c].username)

\* C2 (as amended): when the endpoint answers the single POST with a 2xx
\* status and a JSON body, add_user returns exactly the structure the body
\* denotes, and the request body the endpoint received has a non-empty blob,
\* a non-empty clientKey and userName equal to the username argument.
C2_ReturnsParsedOn2xx ==
    \A c \in Calls :
        (/\ Finished(c)
         /\ reply[c].kind = "response"
         /\ reply[c].status \in 200..299
         /\ reply[c].body \in JsonBodies) =>
            /\ pc[c] = "returned"
            /\ outcome[c] = Ok(ParsedBody(reply[c].body))
            /\ ReceivedWellFormed(c)

\* The spec's scenario: alice, tok123, the endpoint answering 200 with
\* {"status":101,"statusString":"OK"}.
C2_Witness ==
    \E c \in Calls :
        /\ pc[c] = "returned"
        /\ arg[c].username = <<97, 108, 105, 99, 101>>
        /\ arg[c].access_token = <<116, 111, 107, 49, 50, 51>>
        /\ reply[c] = [kind |-> "response", status |-> 200, body |-> StatusOkBody]
        /\ outcome[c] = Ok(ParsedBody(StatusOkBody))
        /\ ReceivedWellFormed(c)

\* C2 as stated: whenever the endpoint answers with a JSON body, whatever the
\* status, add_user returns the structure the body denotes.
C2_ReturnsParsedOnAnyStatus ==
    \A c \in Calls :
        (/\ Finished(c)
         /\ reply[c].kind = "response"
         /\ reply[c].body \in JsonBodies) =>
            /\ pc[c] = "returned"
            /\ outcome[c] = Ok(ParsedBody(reply[c].body))
            /\ ReceivedWellFormed(c)

\* The byte lengths of the call's username and access token.
UsernameLen(c) == Len(encode(arg[c].username))

TokenLen(c) == Len(encode(arg[c].access_token))

\* The largest length _write_int encodes: 0x7f in the first byte, 0xff in the second.
MaxWritable == 127 + 128 * 255

\* C1 (as amended): a call whose username or access token is longer than
\* 32767 bytes fails with the ValueError of _write_int while the plaintext
\* is being built, and issues no HTTP request; a call with both lengths up to
\* 32767 (a 20000-byte token, say) gets past the length prefixes, so if it
\* fails, it fails at the HTTP exchange.
C1_LengthLimit ==
    \A c \in Calls :
        LET ulen == UsernameLen(c)
            tlen == TokenLen(c)
        IN  IF ulen > MaxWritable \/ tlen > MaxWritable
            THEN /\ pc[c] \in {"start", "generate", "serialize", "raised"}
                 /\ pc[c] = "raised" => outcome[c] = Raise("ValueError")
                 /\ opened[c] = 0
                 /\ \A k \in 1..Len(wire) : wire[k].call # c
            ELSE /\ pc[c] = "raised" =>
                       (opened[c] = 1 /\ outcome[c].exc # "ValueError")
                 /\ pc[c] \in AfterSerialize =>
                       Len(hist[c].plain) = 6 + ulen + tlen
                                              + (IF ulen > 127 THEN 1 ELSE 0)
                                              + (IF tlen > 127 THEN 1 ELSE 0)

\* A token of 32768 bytes: the call has ended with ValueError, nothing sent.
C1_Witness ==
    \E c \in Calls :
        /\ pc[c] = "raised"
        /\ TokenLen(c) = 32768
        /\ UsernameLen(c) = 5
        /\ outcome[c] = Raise("ValueError")
        /\ opened[c] = 0
        /\ wire = <<>>

\* C1 as stated: a call whose username or access token is longer than 16383
\* bytes fails with EncodingLimitError (the encoder's ValueError counted as
\* one) instead of encoding a length prefix, and issues no HTTP request.
C1_LimitAt16383 ==
    \A c \in Calls :
        (UsernameLen(c) > 16383 \/ TokenLen(c) > 16383) =>
            /\ pc[c] \in {"start", "generate", "serialize", "raised"}
            /\ pc[c] = "raised" => outcome[c].exc \in {"EncodingLimitError", "ValueError"}
            /\ opened[c] = 0

(***************************************************************************)
(* The outer blob                                                          *)
(***************************************************************************)
AfterWrap == AfterEncrypt \ {"outer"}

\* The three parts of an outer blob as a receiver cuts it.
BlobIV(blob) == SubSeq(blob, 1, 16)

BlobStream(blob) == SubSeq(blob, 17, Len(blob) - 20)

BlobTag(blob) == SubSeq(blob, Len(blob) - 19, Len(blob))

\* C11: the outer blob is the 16-byte IV, then a stream ciphertext as long as
\* the inner ciphertext, then a 20-byte tag; its length is 36 plus the length
\* of the inner ciphertext, which is the length of the padded inner blob.
C11_OuterLayout ==
    \A c \in Calls :
        pc[c] \in AfterWrap =>
            /\ Len(loc[c].iv) = 16
            /\ Len(loc[c].outer.encrypted) = Len(loc[c].inner)
            /\ Len(loc[c].outer.mac) = 20
            /\ loc[c].blob = loc[c].iv \o loc[c].outer.encrypted \o loc[c].outer.mac
            /\ Len(loc[c].blob) = 36 + Len(loc[c].inner)
            /\ Len(loc[c].blob) = 36 + Len(hist[c].padded)

\* An inner ciphertext of 16 bytes wrapped into 52.
C11_Witness ==
    \E c \in Calls :
        /\ pc[c] = "compose"
        /\ Len(loc[c].inner) = 16
        /\ Len(loc[c].blob) = 52
        /\ BlobIV(loc[c].blob) = loc[c].iv
        /\ BlobStream(loc[c].blob) = loc[c].outer.encrypted
        /\ BlobTag(loc[c].blob) = loc[c].outer.mac

\* The shared secret of the call, as the device key and the call's private
\* scalar determine it.
SharedOf(c) == _dh_shared(arg[c].device_pub_b64, loc[c].client_private).val

ChecksumKeyOf(shared) == _hmac_sha1(sha1(shared), S_CHECKSUM)

EncryptionKeyOf(shared) == SubSeq(_hmac_sha1(sha1(shared), S_ENCRYPTION), 1, 16)

\* C12: the last 20 bytes of the outer blob are HMAC-SHA1(checksumKey, stream),
\* stream being the bytes between the 16-byte IV and the tag, and checksumKey
\* coming from the shared secret that also gives the key the stream was
\* encrypted under.
C12_TagOverStream ==
    \A c \in Calls :
        pc[c] \in AfterWrap =>
            LET blob == loc[c].blob
                shared == SharedOf(c)
            IN  /\ Len(blob) >= 36
                /\ BlobTag(blob) = _hmac_sha1(ChecksumKeyOf(shared), BlobStream(blob))
                /\ Ok(BlobStream(blob)) =
                       _aes128_ctr(EncryptionKeyOf(shared), BlobIV(blob), loc[c].inner)

\* A blob whose tag is the MAC of the stream and of nothing else.
C12_Witness ==
    \E c \in Calls :
        /\ pc[c] = "compose"
        /\ Len(loc[c].blob) = 52
        /\ BlobTag(loc[c].blob)
               = _hmac_sha1(ChecksumKeyOf(SharedOf(c)), BlobStream(loc[c].blob))
        /\ BlobTag(loc[c].blob)
               # _hmac_sha1(ChecksumKeyOf(SharedOf(c)), SubSeq(loc[c].blob, 1, 32))
        /\ BlobTag(loc[c].blob) # _hmac_sha1(ChecksumKeyOf(SharedOf(c)), loc[c].inner)

\* C13: the outer encryption key is 16 bytes, the first 16 of
\* HMAC-SHA1(SHA1(shared), "encryption"), and the checksum key is the whole
\* 20 bytes of HMAC-SHA1(SHA1(shared), "checksum"): two labels, one base.
C13_OuterKeys ==
    \A c \in Calls :
        pc[c] \in AfterWrap =>
            LET keys == loc[c].outer
                base == sha1(keys.shared)
            IN  /\ keys.shared = SharedOf(c)
                /\ keys.base_key = base
                /\ Len(keys.encryption_key) = 16
                /\ keys.encryption_key = SubSeq(_hmac_sha1(base, S_ENCRYPTION), 1, 16)
                /\ Len(keys.checksum_key) = 20
                /\ keys.checksum_key = _hmac_sha1(base, S_CHECKSUM)

\* Keys in use that differ from each other on their common length.
C13_Witness ==
    \E c \in Calls :
        /\ pc[c] = "compose"
        /\ Len(loc[c].outer.encryption_key) = 16
        /\ Len(loc[c].outer.checksum_key) = 20
        /\ loc[c].outer.checksum_key = ChecksumKeyOf(SharedOf(c))
        /\ loc[c].outer.encryption_key # SubSeq(loc[c].outer.checksum_key, 1, 16)

(***************************************************************************)
(* The request                                                             *)
(***************************************************************************)
\* The endpoint's decoding of a base64 field of whole, padded quads: byte j
\* of the result comes from quad (j - 1) div 3.
decode_quads(text) ==
    LET quads == Len(text) \div 4
        pads == IF quads = 0 THEN 0
                ELSE (IF text[Len(text)] = 61 THEN 1 ELSE 0)
                         + (IF text[Len(text) - 1] = 61 THEN 1 ELSE 0)
        v(i) == IF text[i] = 61 THEN 0 ELSE b64_value(text[i])
        word(q) == v(4 * q + 1) * 262144 + v(4 * q + 2) * 4096
                       + v(4 * q + 3) * 64 + v(4 * q + 4)
    IN  IF text = None \/ Len(text) % 4 # 0 THEN None
        ELSE [j \in 1..(3 * quads - pads) |->
                 LET q == (j - 1) \div 3
                     r == (j - 1) % 3
                 IN  (word(q) \div (IF r = 0 THEN 65536 ELSE IF r = 1 THEN 256 ELSE 1)) % 256]

\* The names of the fields of a parsed form body, in order.
FieldNames(items) == [k \in 1..Len(items) |-> items[k][1]]

\* The value of the first field called name among the parsed fields.
ValueOf(items, name) ==
    LET hits == {k \in 1..Len(items) : items[k][1] = name}
    IN  IF hits = {} THEN None ELSE items[CHOOSE k \in hits : \A h \in hits : k <= h][2]

SevenFields ==
    <<S_ACTION, S_USERNAME, S_BLOB, S_CLIENTKEY, S_DEVICEID, S_DEVICENAME, S_TOKENTYPE>>

\* The requests of call c that reached the endpoint.
Received(c) == {wire[k].req : k \in {j \in 1..Len(wire) : wire[j].call = c}}

\* C14: the body of every request received has the seven fields action,
\* userName, blob, clientKey, deviceId, deviceName, tokenType and no others;
\* action is "addUser", tokenType is "accesstoken", userName is the username
\* argument, blob is the base64 of the outer blob and clientKey the base64 of
\* the KEY_BYTES-byte public value.
C14_FormFields ==
    \A c \in Calls : \A req \in Received(c) :
        LET items == parse_qsl(req.data)
        IN  /\ FieldNames(items) = SevenFields
            /\ ValueOf(items, S_ACTION) = S_ADDUSER
            /\ ValueOf(items, S_TOKENTYPE) = S_ACCESSTOKEN
            /\ ValueOf(items, S_USERNAME) = encode(arg[c].username)
            /\ ValueOf(items, S_BLOB) = b64encode(loc[c].blob)
            /\ decode_quads(ValueOf(items, S_BLOB)) = loc[c].blob
            /\ ValueOf(items, S_CLIENTKEY) = b64encode(loc[c].client_public)
            /\ b64decode(ValueOf(items, S_CLIENTKEY)) = Ok(loc[c].client_public)
            /\ Len(loc[c].client_public) = KEY_BYTES
            /\ ValueOf(items, S_DEVICEID) = encode(loc[c].client_device_id)
            /\ ValueOf(items, S_DEVICENAME) = encode(arg[c].client_device_name)
            /\ req.content_type = S_FORM
            /\ req.method = "POST"

\* A request for the username "a b&c=d", whose characters are field syntax.
C14_Witness ==
    \E c \in Calls : \E req \in Received(c) :
        /\ arg[c].username = <<97, 32, 98, 38, 99, 61, 100>>
        /\ Len(parse_qsl(req.data)) = 7
        /\ field(req.data, S_USERNAME) = <<97, 32, 98, 38, 99, 61, 100>>
        /\ field(req.data, S_ACTION) = S_ADDUSER

\* The secret the device computes from a clientKey field: clientKey^DevicePrivate.
DeviceShared(client_key_b64) == _dh_shared(client_key_b64, DevicePrivate)

\* C15: in every request the clientKey is the public value of the keypair
\* whose private scalar gave the shared secret that keys the outer layer of
\* the blob in that request: the public value is GENERATOR^private, the
\* blob's keys and tag come from _dh_shared(device key, private), and the
\* device whose key it is derives the same secret from the clientKey.
C15_SameKeypair ==
    \A c \in Calls : \A req \in Received(c) :
        LET items == parse_qsl(req.data)
            client_key == b64decode(ValueOf(items, S_CLIENTKEY))
            blob == decode_quads(ValueOf(items, S_BLOB))
            private == loc[c].client_private
            shared == SharedOf(c)
        IN  /\ client_key = to_bytes(pow(GENERATOR, private, PRIME), KEY_BYTES)
            /\ Len(blob) >= 36
            /\ loc[c].outer.shared = shared
            /\ BlobTag(blob) = _hmac_sha1(ChecksumKeyOf(shared), BlobStream(blob))
            /\ Ok(BlobStream(blob)) =
                   _aes128_ctr(EncryptionKeyOf(shared), BlobIV(blob), loc[c].inner)
            /\ arg[c].device_pub_b64 = DeviceKey =>
                   DeviceShared(ValueOf(items, S_CLIENTKEY)) = Ok(shared)

\* A request to the device of DeviceKey, from a keypair other than the
\* device's own and with a secret that is neither public value.
C15_Witness ==
    \E c \in Calls : \E req \in Received(c) :
        /\ arg[c].device_pub_b64 = DeviceKey
        /\ loc[c].client_private = 254
        /\ DeviceShared(field(req.data, S_CLIENTKEY)) = Ok(loc[c].outer.shared)
        /\ loc[c].outer.shared # loc[c].client_public

(***************************************************************************)
(* Failures                                                                *)
(***************************************************************************)
\* The device keys base64.b64decode rejects: "AAE" and the non-ASCII one.
Undecodable == {<<65, 65, 69>>, <<233>>}

\* The device keys it accepts although they are no base64 of KEY_BYTES bytes
\* or more: "Bw==" (one byte) and "!!!!" (no byte).
ShortKeys == {<<66, 119, 61, 61>>, <<33, 33, 33, 33>>}

BeforeWrap == {"start", "generate", "serialize", "pad", "xor", "encrypt", "outer"}

\* C16 (as amended): a call whose device key base64.b64decode rejects fails
\* with that error (binascii.Error for bad padding, ValueError for non-ASCII
\* text) when the shared secret is computed, before any HTTP request; a call
\* with any other key, however short, does not fail before its request.
C16_DeviceKeyErrors ==
    \A c \in Calls :
        IF arg[c].device_pub_b64 \in Undecodable
        THEN /\ pc[c] \in BeforeWrap \cup {"raised"}
             /\ pc[c] = "raised" =>
                   outcome[c] = Raise(IF arg[c].device_pub_b64 = <<233>>
                                      THEN "ValueError" ELSE "binascii.Error")
             /\ opened[c] = 0
             /\ Received(c) = {}
        ELSE /\ pc[c] = "raised" => opened[c] = 1
             /\ pc[c] \in AfterWrap => Len(loc[c].outer.shared) = KEY_BYTES

\* The call with the key "AAE" has failed, its inner blob built, nothing sent.
C16_Witness ==
    \E c \in Calls :
        /\ pc[c] = "raised"
        /\ arg[c].device_pub_b64 = <<65, 65, 69>>
        /\ outcome[c] = Raise("binascii.Error")
        /\ loc[c].inner # <<>>
        /\ opened[c] = 0
        /\ wire = <<>>

\* C16 as stated: a call whose device key is not valid base64, or decodes to
\* fewer than KEY_BYTES bytes, fails with a CryptoInputError (the decoder's
\* errors counted as such) before any HTTP request.
C16_MalformedKeyRejected ==
    \A c \in Calls :
        arg[c].device_pub_b64 \in Undecodable \cup ShortKeys =>
            /\ pc[c] \in BeforeWrap \cup {"raised"}
            /\ pc[c] = "raised" =>
                  outcome[c].exc \in {"CryptoInputError", "binascii.Error", "ValueError"}
            /\ opened[c] = 0

\* The three ways the HTTP exchange of a finished call went wrong.
ConnectFailed(c) == pc[c] = "raised" /\ opened[c] = 1 /\ reply[c].kind = "none"

TimedOut(c) == reply[c].kind = "timeout"

Unparseable(c) == reply[c].kind = "response" /\ reply[c].body \notin JsonBodies

IdDraws(a) == IF a.client_device_id = None THEN 1 ELSE 0

\* The request add_user composes, as a function of the arguments of one call
\* and of the byte strings os.urandom returned to that call, in order.
OwnRequest(a, drawn) ==
    LET k == IdDraws(a)
        client_device_id == IF k = 1 THEN hexdigest(sha1(drawn[1])) ELSE a.client_device_id
        pair == _dh_generate(drawn[k + 1]).val
        raw == inner_plaintext(encode(a.username), encode(a.access_token)).val
        key == derive_inner_key(a.device_id, encode(a.username))
        inner == _aes192_ecb_encrypt(key, xor_obfuscate(zero_pad(raw))).val
        blob == _build_outer_blob(inner, a.device_pub_b64, pair.private, drawn[k + 2]).val
    IN  request_of(a.address, a.port, a.path, a.username, blob, pair.public,
                   client_device_id, a.client_device_name)

\* The steps of call c leave every other call as it is.
OthersUntouched(c) ==
    \A d \in Calls \ {c} :
        /\ pc'[d] = pc[d]
        /\ loc'[d] = loc[d]
        /\ hist'[d] = hist[d]
        /\ outcome'[d] = outcome[d]
        /\ opened'[d] = opened[d]
        /\ reply'[d] = reply[d]

\* C19: under every interleaving of two calls, a call that holds a keypair
\* holds the one made from its own draw, the IV of its blob is its own draw,
\* and every request received from it is the request computed from its own
\* arguments and its own draws alone; a keypair draw or IV draw of the other
\* call that differs from its own is not in its request.  Every step is the
\* step of one call, changes nothing of the other call, whether it succeeds
\* or fails, and changes neither the arguments nor anything the calls share.
C19_Independent ==
    /\ [](\A c \in Calls :
            LET k == IdDraws(arg[c])
                drawn == hist[c].drawn
            IN  /\ pc[c] \in AfterSerialize \cup {"serialize"} =>
                       /\ Len(drawn) >= k + 1
                       /\ loc[c].client_private = _dh_generate(drawn[k + 1]).val.private
                       /\ loc[c].client_public = _dh_generate(drawn[k + 1]).val.public
                /\ loc[c].blob # <<>> =>
                       /\ Len(drawn) = k + 2
                       /\ BlobIV(loc[c].blob) = drawn[k + 2]
                /\ \A req \in Received(c) :
                       /\ req = OwnRequest(arg[c], drawn)
                       /\ \A d \in Calls \ {c} :
                              LET items == parse_qsl(req.data)
                                  j == IdDraws(arg[d])
                                  theirs == hist[d].drawn
                              IN  /\ (Len(theirs) >= j + 1 /\ theirs[j + 1] # drawn[k + 1]) =>
                                         ValueOf(items, S_CLIENTKEY) #
                                             b64encode(_dh_generate(theirs[j + 1]).val.public)
                                  /\ (Len(theirs) = j + 2 /\ theirs[j + 2] # drawn[k + 2]) =>
                                         BlobIV(decode_quads(ValueOf(items, S_BLOB))) # theirs[j + 2])
    /\ [][/\ \E c \in Calls : OthersUntouched(c)
          /\ arg' = arg
          /\ entropy' = entropy
          /\ endpoint' = endpoint]_vars

\* Both calls were received, by different devices, each with a keypair draw
\* and an IV draw that the other call did not make, the second call having
\* sent its request first.
C19_Witness ==
    /\ Len(wire) = 2
    /\ wire[1].call = 2
    /\ wire[2].call = 1
    /\ arg[1].device_id # arg[2].device_id
    /\ IdDraws(arg[1]) = 0
    /\ IdDraws(arg[2]) = 1
    /\ hist[1].drawn[1] # hist[2].drawn[2]
    /\ hist[1].drawn[2] # hist[2].drawn[3]
    /\ pc[1] = "raised"
    /\ pc[2] = "returned"


(***************************************************************************)
(* The deviceId field                                                      *)
(***************************************************************************)
\* The characters 0-9 and a-f.
HexDigits == (48..57) \cup (97..102)

\* bytes.fromhex: the bytes a string of hexadecimal characters stands for.
fromhex(text) ==
    [i \in 1..(Len(text) \div 2) |-> 16 * hex_value(text[2 * i - 1]) + hex_value(text[2 * i])]

\* C20: in every request received, the deviceId field of a call made without
\* clientDeviceId is 40 hexadecimal characters, the hex of a 20-byte value
\* made during the call from 20 bytes that os.urandom returned to it (their
\* SHA-1 digest); the deviceId field of a call made with a clientDeviceId,
\* the empty string included, is that value, and the call drew from
\* os.urandom for its keypair and its IV only.
C20_DeviceIdField ==
    \A c \in Calls : \A req \in Received(c) :
        LET id == ValueOf(parse_qsl(req.data), S_DEVICEID)
            drawn == hist[c].drawn
        IN  IF arg[c].client_device_id = None
            THEN /\ Len(id) = 40
                 /\ \A i \in 1..40 : id[i] \in HexDigits
                 /\ Len(drawn) = 3
                 /\ drawn[1] \in urandom_from(entropy, 20)
                 /\ Len(fromhex(id)) = 20
                 /\ fromhex(id) = sha1(drawn[1])
            ELSE /\ id = arg[c].client_device_id
                 /\ Len(drawn) = 2
                 /\ loc[c].client_private = _dh_generate(drawn[1]).val.private
                 /\ BlobIV(loc[c].blob) = drawn[2]

\* A request of a call made without clientDeviceId, with a generated
\* identifier that has a letter and a digit among its 40 characters.
C20_Witness ==
    \E c \in Calls : \E req \in Received(c) :
        LET id == field(req.data, S_DEVICEID)
        IN  /\ arg[c].client_device_id = None
            /\ Len(id) = 40
            /\ \E i \in 1..40 : id[i] \in 97..102
            /\ \E i \in 1..40 : id[i] \in 48..57
            /\ Len(hist[c].drawn) = 3


(***************************************************************************)
(* The peer's public value                                                 *)
(***************************************************************************)
\* The integer a base64 text of a public value stands for.
PeerInteger(text) == from_bytes(decode_quads(text))

\* C21: _dh_shared answers every public value that decodes, without range
\* validation: for the integers 0, 1, PRIME-1, PRIME and beyond, and for
\* texts of fewer or more than KEY_BYTES bytes, it raises nothing and returns
\* exactly KEY_BYTES bytes that read big-endian as peer^private mod PRIME.
C21_NoRangeValidation ==
    \A p \in Parties :
        dh[p].peer # None =>
            /\ dh[p].stage = "answered"
            /\ Len(dh[p].shared) = KEY_BYTES
            /\ \A i \in 1..KEY_BYTES : dh[p].shared[i] \in 0..255
            /\ from_bytes(dh[p].shared) =
                   PowerMod(PeerInteger(dh[p].peer) % PRIME, dh[p].private)

\* The peer sent PRIME-1, the other peer sent a value beyond the prime, and
\* a secret other than 0 and 1 came out of the second.
C21_Witness ==
    /\ dh["A"].stage = "answered"
    /\ PeerInteger(dh["A"].peer) = PRIME - 1
    /\ dh["A"].private = 3
    /\ from_bytes(dh["A"].shared) = PRIME - 1
    /\ dh["B"].stage = "answered"
    /\ PeerInteger(dh["B"].peer) > PRIME
    /\ from_bytes(dh["B"].shared) > 1


(***************************************************************************)
(* The device's reading of the inner plaintext                             *)
(***************************************************************************)
\* C22: the backward pass undoes the forward transform: right after the XOR
\* step of a call, applying buffer[j] ^= buffer[j-16] for j from length-1
\* down to 16 to the transformed buffer gives the padded plaintext, a
\* buffer of whole 16-byte blocks, again.
C22_BackwardInverts ==
    \A c \in Calls :
        pc[c] = "encrypt" =>
            /\ Len(hist[c].padded) % 16 = 0
            /\ Len(loc[c].raw) = Len(hist[c].padded)
            /\ xor_backward(loc[c].raw) = hist[c].padded

\* A buffer of more than two blocks whose last block was changed by the
\* transform, and in which a byte beyond the second block took the XOR of
\* three plaintext bytes.
C22_Witness ==
    \E c \in Calls :
        /\ pc[c] = "encrypt"
        /\ Len(loc[c].raw) >= 48
        /\ loc[c].raw[Len(loc[c].raw)] # hist[c].padded[Len(loc[c].raw)]
        /\ \E j \in 33..48 :
               /\ loc[c].raw[j] # BitXor(hist[c].padded[j], hist[c].padded[j - 16])
               /\ hist[c].padded[j] # 0


(***************************************************************************)
(* Zero padding                                                            *)
(***************************************************************************)
\* C23: padding appends the fewest zero bytes that reach a block boundary:
\* the padded buffer starts with the serialized blob, its length is the
\* least multiple of 16 not below the blob's, between 0 and 15 bytes are
\* appended and each is 0x00, and an aligned blob is left as it is.
C23_MinimalPadding ==
    \A c \in Calls :
        pc[c] \in AfterPad =>
            LET n == Len(hist[c].plain)
                m == Len(hist[c].padded)
            IN  /\ m % 16 = 0
                /\ m >= n
                /\ m - n \in 0..15
                /\ \A k \in n..(m - 1) : k % 16 # 0
                /\ SubSeq(hist[c].padded, 1, n) = hist[c].plain
                /\ \A i \in (n + 1)..m : hist[c].padded[i] = 0
                /\ n % 16 = 0 => hist[c].padded = hist[c].plain

\* A serialized blob of exactly 16 bytes, padded with nothing.
C23_Witness ==
    \E c \in Calls :
        /\ pc[c] = "xor"
        /\ Len(hist[c].plain) = 16
        /\ hist[c].padded = hist[c].plain
        /\ loc[c].raw = hist[c].plain


(***************************************************************************)
(* No silent truncation of a length                                        *)
(***************************************************************************)
\* The integer that one or two returned bytes stand for, in arithmetic.
Recovered(bs) == IF Len(bs) = 1 THEN bs[1] ELSE (bs[1] % 128) + 128 * bs[2]

\* C24: for every n from 0 to MaxEncoded, _write_int either returns one or
\* two bytes from which exactly n is recovered, by the arithmetic above and
\* by the decoder alike, or it raises ValueError; it returns no bytes that
\* stand for another value.
C24_NoTruncation ==
    vi.stage \in {"written", "read"} =>
        /\ vi.out.exc \in {"none", "ValueError"}
        /\ vi.out.exc = "none" =>
               /\ Len(vi.out.val) \in {1, 2}
               /\ \A i \in 1..Len(vi.out.val) : vi.out.val[i] \in 0..255
               /\ Len(vi.out.val) = 1 => vi.out.val[1] < 128
               /\ Len(vi.out.val) = 2 => vi.out.val[1] >= 128
               /\ Recovered(vi.out.val) = vi.n
        /\ vi.stage = "read" => vi.decoded = vi.n

\* The first integer whose second byte would not fit: an error and no bytes.
C24_Witness ==
    /\ vi.stage = "written"
    /\ vi.n = 32768
    /\ vi.out.exc = "ValueError"


(***************************************************************************)
(* What a request shows in the clear                                       *)
(***************************************************************************)
\* needle occurs in hay as a run of consecutive elements.
Contains(hay, needle) ==
    \E i \in 0..(Len(hay) - Len(needle)) : SubSeq(hay, i + 1, i + Len(needle)) = needle

\* The token of call c is not empty and is not part of the username that
\* the caller passes along with it.
TokenApart(c) ==
    /\ arg[c].access_token # <<>>
    /\ ~Contains(encode(arg[c].username), encode(arg[c].access_token))

\* C25: in every request received, no form field, neither its name nor its
\* value, holds the bytes of the access token or the id of the target device
\* (a token that the caller also put into the username, and the empty token,
\* set aside); the token is in the plaintext that the blob encrypts, and
\* neither the blob field nor the bytes it decodes to show it; the deviceId
\* field is the client's identifier, given or generated, and not the
\* target's id.
C25_NothingInTheClear ==
    \A c \in Calls : \A req \in Received(c) :
        LET items == parse_qsl(req.data)
            token == encode(arg[c].access_token)
            target == encode(arg[c].device_id)
        IN  /\ Contains(hist[c].plain, token)
            /\ \A k \in 1..Len(items) :
                   /\ TokenApart(c) => ~Contains(items[k][2], token)
                   /\ TokenApart(c) => ~Contains(items[k][1], token)
                   /\ items[k][1] # S_USERNAME /\ token # <<>> => ~Contains(items[k][2], token)
                   /\ ~Contains(items[k][2], target)
            /\ TokenApart(c) => ~Contains(req.data, token)
            /\ token # <<>> => ~Contains(decode_quads(ValueOf(items, S_BLOB)), token)
            /\ ~Contains(req.url, target)
            /\ ValueOf(items, S_DEVICEID) = loc[c].client_device_id
            /\ ValueOf(items, S_DEVICEID) # target
            /\ arg[c].client_device_id # None =>
                   ValueOf(items, S_DEVICEID) = arg[c].client_device_id

\* A request for a 21-byte token and the device dev-42, with the client's
\* identifier cid-1 in the deviceId field.
C25_Witness ==
    \E c \in Calls : \E req \in Received(c) :
        /\ Len(arg[c].access_token) = 21
        /\ arg[c].device_id = <<100, 101, 118, 45, 52, 50>>
        /\ field(req.data, S_DEVICEID) = <<99, 105, 100, 45, 49>>
        /\ Contains(hist[c].plain, arg[c].access_token)
        /\ TokenApart(c)
        /\ Len(field(req.data, S_BLOB)) > 36

(***************************************************************************)
(* SpotifyClient._request: refresh and retry after a 401                   *)
(***************************************************************************)
\* The positions in the trail of the refreshes that a 401 set off.
Refreshes401 == {k \in 1..Len(rq.trail) : rq.trail[k].ev = "refresh_401"}

\* At most one refresh is set off by a 401; it follows a request that was
\* issued with retry enabled and answered 401, and every request issued
\* after it has retry disabled and carries a newer token.
RefreshedOnce ==
    /\ Cardinality(Refreshes401) <= 1
    /\ \A k \in Refreshes401 :
          /\ k > 1
          /\ rq.trail[k - 1].ev = "issue"
          /\ rq.trail[k - 1].status = 401
          /\ rq.trail[k - 1].retry
          /\ \A j \in (k + 1)..Len(rq.trail) :
                rq.trail[j].ev = "issue" =>
                    /\ ~rq.trail[j].retry
                    /\ rq.trail[j].token > rq.trail[k - 1].token
    /\ (rq.at = "ensure" /\ rq.trail # <<>>) => ~rq.retry

\* The call is over and the last thing it did was a request with retry
\* disabled that met an error status other than 429.
ReissueFailed ==
    /\ rq.at \in {"returned", "raised"}
    /\ rq.trail # <<>>
    /\ LET last == rq.trail[Len(rq.trail)]
       IN  /\ last.ev = "issue"
           /\ ~last.retry
           /\ last.status \in {401, 404}

\* C26 as stated: one top-level call refreshes the token because of a 401 at
\* most once, re-issues the request with retry disabled after it, and a
\* re-issued request that meets a 401 or another error status that is not
\* 429 makes the call return None with no further refresh or request.
C26_OneRefreshThenNone ==
    /\ RefreshedOnce
    /\ ReissueFailed => rq.result = Ok(None)

(***************************************************************************)
(* find_device                                                             *)
(***************************************************************************)
\* Two names are the same but for the case of their letters.
SameButCase(a, b) ==
    /\ Len(a) = Len(b)
    /\ \A i \in 1..Len(a) :
          \/ a[i] = b[i]
          \/ a[i] \in 65..90 /\ b[i] = a[i] + 32
          \/ b[i] \in 65..90 /\ a[i] = b[i] + 32

\* The devices of the last poll that bear the name asked for.
Matching ==
    {i \in 1..Len(fd.devices) : SameButCase(name_of(fd.devices[i]), fd.name)}

\* The positions in the trail of the events called ev.
TrailOf(ev) == {k \in 1..Len(fd.trail) : fd.trail[k] = ev}

KnownKeysLeftAlone ==
    /\ sy.again = {}
    /\ sy.seen_songs \subseteq sy.found
    /\ sy.not_found_songs \subseteq sy.failed

\* C28 as stated: over the calls that share the two sets, no key of either
\* set is searched or queued again, every key is added to the Spotify queue
\* at most once, a key is in seen_songs only after a URI was found for it
\* and in not_found_songs only after all its queries failed.
C28_QueuedAtMostOnce ==
    /\ KnownKeysLeftAlone
    /\ \A k \in SongKeys : sy.queued[k] <= 1

(***************************************************************************)
(* /play: the pending initial list                                         *)
(***************************************************************************)
\* Whether request r called the operation op.
Called(r, op) == \E i \in 1..Len(r.ops) : r.ops[i] = op

\* While the client or the device id is unset the answer is 503 and no
\* Spotify operation is called.
NotReady503 ==
    \A i \in 1..Len(pl.log) :
        LET r == pl.log[i]
        IN  /\ ~r.ready => r.code = 503 /\ r.ops = <<>>
            /\ r.code = 503 => ~r.ready

\* When playback is already active nothing is changed and the pending list
\* is kept.
AlreadyPlayingUntouched ==
    \A i \in 1..Len(pl.log) :
        LET r == pl.log[i]
        IN  r.ready /\ r.ps = "is_playing" =>
               /\ r.code = 200
               /\ r.ops = <<"get_playback_state">>
               /\ r.after = r.before

\* When nothing is playing the request calls start_playback exactly when a
\* list is pending, and transfer_playback otherwise; the list is emptied
\* exactly when start_playback returned.
StartOrTransfer ==
    \A i \in 1..Len(pl.log) :
        LET r == pl.log[i]
        IN  r.ready /\ r.ps \in {"None", "paused"} =>
               /\ Called(r, "start_playback") = (r.before # <<>>)
               /\ Called(r, "transfer_playback") = (r.before = <<>>)
               /\ Called(r, "start_playback") /\ r.returned => r.after = <<>>
               /\ Called(r, "start_playback") /\ ~r.returned => r.after = r.before

\* After a start_playback that returned, no later /play calls start_playback.
NoStartAfterReturn ==
    \A i \in 1..Len(pl.log) : \A j \in 1..Len(pl.log) :
        i < j /\ Called(pl.log[i], "start_playback") /\ pl.log[i].returned
            => ~Called(pl.log[j], "start_playback")

\* The requests by which Spotify started the pending list.
Started == {i \in 1..Len(pl.log) : Called(pl.log[i], "start_playback") /\ pl.log[i].accepted}

PlayHandlerParts ==
    NotReady503 /\ AlreadyPlayingUntouched /\ StartOrTransfer /\ NoStartAfterReturn

\* C29 as stated: 503 and no Spotify operation while client or device id is
\* unset; otherwise, when nothing is playing, playback is started with the
\* pending initial list at most once and every later /play uses
\* transfer_playback; when playback is active nothing changes and the list
\* stays pending.
C29_StartedAtMostOnce ==
    /\ NotReady503
    /\ AlreadyPlayingUntouched
    /\ Cardinality(Started) <= 1
    /\ \A i \in Started : \A j \in 1..Len(pl.log) :
          i < j => ~Called(pl.log[j], "start_playback")

=============================================================================
